---- MODULE Spec2Model ----
\* Model of the wgpu-native loader shim (wgpu_dynload.c, wgpu_optional_sym.c)
\* and of the synchronous-callback adapters (wgpu_stub_helpers_sync.c and
\* friends).  POSIX branch of the loader; the path resolver is modelled for the
\* three platform builds.
EXTENDS Integers, Sequences, FiniteSets, TLC

VARIABLES
    platform,                  \* which build: "linux", "macos", "windows"
    env,                       \* process environment: variable name -> string pointer
    fs,                        \* file system: library path -> library id (0: not loadable)
    pathCall,                  \* one call of mbt_wgpu_native_resolve_lib_path: [pc, buflen, ret]
    g_mbt_wgpu_native_lib,     \* wgpu_dynload.c cached handle (0 = NULL)
    g_mbt_wgpu_native_mu,      \* owner of the loader mutex (0 = unlocked)
    g_mbt_wgpu_optional_lib,   \* wgpu_optional_sym.c handle (0 = NULL)
    g_mbt_wgpu_optional_once,  \* pthread_once state of the optional probe
    th,                        \* per-thread call frame of a loader entry point
    aborted,                   \* "" while the process runs, else the entry point that aborted
    loads,                     \* per library path, successful dlopen calls so far (saturating)
    envChanges,                \* number of environment / file-system changes so far
    marker,                    \* per feature, the lib_path recorded in its marker file (NULL: none)
    gate,                      \* per feature, g_mbt_wgpu_<feature>_enabled / _inited
    statics,                   \* per call site, the static `checked` flag and `pfn`
    lastErr,                   \* thread-local last status / last error kind of the strict calls
    g_device_lost,             \* device-lost registry: sequence of [device, reason]
    call,                      \* the synchronous adapter call being made
    gateQ,                     \* the last feature-gate query and what it saw
    lostQ,                     \* the last device-lost registry operation and its result
    msgQ,                      \* the last length-query / data-fetch helper call
    flagQ,                     \* the last boolean environment flag read
    diag,                      \* the diagnostic call in progress and the handles it holds
    sth,                       \* per thread, its call into the registries or a call site
    g_device_lost_mu,          \* the device-lost registry mutex: 0, or the thread holding it
    g_wait_any_entries,        \* the wait_any registry, a sequence of [id, completed]
    g_wait_any_next_id,        \* the next future id to hand out
    waitQ                      \* callbacks registered with the native library; the wait_any calls made

loaderVars == <<g_mbt_wgpu_native_lib, g_mbt_wgpu_native_mu, g_mbt_wgpu_optional_lib,
                g_mbt_wgpu_optional_once, th, aborted, loads, envChanges>>

syncVars == <<marker, gate, statics, lastErr, g_device_lost, call>>

mtVars == <<sth, g_device_lost_mu, g_wait_any_entries, g_wait_any_next_id, waitQ>>
auxVars == <<gateQ, lostQ, msgQ, flagQ, diag, mtVars>>

vars == <<platform, env, fs, pathCall, loaderVars, syncVars, auxVars>>

----------------------------------------------------------------------------
\* C strings.  A `const char *` is a record: NULL, or a sequence of characters.

NULLSTR == [isnull |-> TRUE, s |-> <<>>]

Str(s) == [isnull |-> FALSE, s |-> s]

\* `p && p[0]`
NonEmpty(p) == ~p.isnull /\ Len(p.s) > 0

Min(a, b) == IF a < b THEN a ELSE b

Rep(c, n) == [i \in 1..n |-> c]

\* snprintf(buf, buflen, "%s", s): at most buflen - 1 characters are stored.
Snprintf(s, buflen) == IF buflen = 0 THEN <<>> ELSE SubSeq(s, 1, Min(Len(s), buflen - 1))

----------------------------------------------------------------------------
\* Path resolution (wgpu_dynload.c).

Platforms == {"linux", "macos", "windows"}

mbt_wgpu_native_lib_filename(p) ==
    IF p = "windows" THEN <<"w","g","p","u","_","n","a","t","i","v","e",".","d","l","l">>
    ELSE IF p = "macos"
         THEN <<"l","i","b","w","g","p","u","_","n","a","t","i","v","e",".","d","y","l","i","b">>
         ELSE <<"l","i","b","w","g","p","u","_","n","a","t","i","v","e",".","s","o">>

\* the fixed per-user install sub-path of the format string
LibSubPath(p) ==
    IF p = "windows" THEN <<"\\",".","l","o","c","a","l","\\","l","i","b","\\">>
    ELSE <<"/",".","l","o","c","a","l","/","l","i","b","/">>

HomeVar(p) == IF p = "windows" THEN "USERPROFILE" ELSE "HOME"

\* home + sub-path + filename, untruncated
DefaultLibPath(p, home) == home \o LibSubPath(p) \o mbt_wgpu_native_lib_filename(p)

\* variant: the home directory is consulted before the override
mbt_wgpu_native_resolve_lib_path_HomeFirst(p, e, buflen) ==
    LET override == e["MBT_WGPU_NATIVE_LIB"]
        home == e[HomeVar(p)]
    IN  IF ~NonEmpty(home) THEN NULLSTR
        ELSE IF NonEmpty(override) THEN override
        ELSE Str(Snprintf(DefaultLibPath(p, home.s), buflen))

mbt_wgpu_native_resolve_lib_path(p, e, buflen) ==
    LET override == e["MBT_WGPU_NATIVE_LIB"]
        home == e[HomeVar(p)]
    IN  IF NonEmpty(override) THEN override
        ELSE IF ~NonEmpty(home) THEN NULLSTR
        ELSE Str(Snprintf(DefaultLibPath(p, home.s), buflen))

\* sizeof(fallback) in mbt_wgpu_native_open_impl, sizeof(path_buf) in the diagnostic
FallbackBufLen == 1024
\* sizeof(resolved) in mbt_wgpu_marker_allows_current_lib
MarkerBufLen == 4096

----------------------------------------------------------------------------
\* Environments and file systems the model explores.

EnvVars == {"MBT_WGPU_NATIVE_LIB", "HOME", "USERPROFILE", "XDG_DATA_HOME",
            "MBT_WGPU_DISABLE_PIPELINE_ASYNC", "MBT_WGPU_ENABLE_PIPELINE_ASYNC",
            "MBT_WGPU_DISABLE_COMPILATION_INFO", "MBT_WGPU_ENABLE_COMPILATION_INFO"}

PathA == <<"/", "a">>
PathB == <<"/", "b">>
HomeH == <<"/", "h">>

\* lengths of the long home directories tried by the path resolver
LongHomeLens == {994, 995, 1000}
\* longest short home directory (all strings over {"/", "h"} up to this length)
MaxShortHome == 2

ShortStrs == UNION {[1..n -> {"/", "h"}] : n \in 0..MaxShortHome}

OverrideVals == {NULLSTR, Str(<<>>), Str(PathA), Str(PathB)}

HomeValsAll == {NULLSTR} \cup {Str(s) : s \in ShortStrs}
                  \cup {Str(Rep("h", n)) : n \in LongHomeLens}

\* values of the two variables in the loader specification
LoadOverrideVals == {NULLSTR, Str(PathA), Str(PathB)}
LoadHomeVals == {NULLSTR, Str(HomeH)}

\* Library files: 1 = a wgpu-native build with every entry point, installed at
\* PathA; 2 = a build without the optional entry points, installed at the
\* default path.  A handle is the id of the file it was opened from.
NoLib == 0
PathD == DefaultLibPath("linux", HomeH)

CandidatePaths == {PathA, PathD}

LibAt(p) == IF p = PathA THEN 1 ELSE 2

Dlopen(f, path) == IF path \in DOMAIN f THEN f[path] ELSE NoLib

----------------------------------------------------------------------------
\* Loader state (wgpu_dynload.c, wgpu_optional_sym.c).

Threads == {1, 2}

NullName == [isnull |-> TRUE, s |-> ""]
Name(n) == [isnull |-> FALSE, s |-> n]

\* `!name || !name[0]`
NameEmpty(n) == n.isnull \/ n.s = ""

IdleFrame == [op |-> "idle", pc |-> "idle", name |-> NullName, lib |-> NoLib,
              ret |-> 0, why |-> "", stored |-> FALSE]

NotAborted == [by |-> "", why |-> ""]

LoaderInit ==
    /\ g_mbt_wgpu_native_lib = NoLib
    /\ g_mbt_wgpu_native_mu = 0
    /\ g_mbt_wgpu_optional_lib = NoLib
    /\ g_mbt_wgpu_optional_once = "init"
    /\ th = [t \in Threads |-> IdleFrame]
    /\ aborted = NotAborted
    /\ loads = [p \in CandidatePaths |-> 0]
    /\ envChanges = 0

----------------------------------------------------------------------------
\* State of the synchronous adapters (wgpu_stub_helpers_sync.c).

Features == {"pipeline_async", "compilation_info"}

Sites == {"compute_lenient", "compute_strict", "render_lenient", "render_strict",
          "compilation_info"}

IdleCall == [fn |-> "none", pc |-> "idle", instance |-> TRUE, argsOk |-> TRUE, i |-> 0,
             status |-> 0, payload |-> 0, issued |-> FALSE, cbRan |-> FALSE,
             pre |-> FALSE, ret |-> 0, syncCalled |-> FALSE, lateWrite |-> FALSE]

NoLastErr == [pipeline_status |-> 0, pipeline_kind |-> 0, ci_status |-> 0, ci_kind |-> 0]

SyncInit ==
    /\ marker = [f \in Features |-> NULLSTR]
    /\ gate = [f \in Features |-> [enabled |-> FALSE, inited |-> FALSE]]
    /\ statics = [s \in Sites |-> [checked |-> FALSE, pfn |-> 0]]
    /\ lastErr = NoLastErr
    /\ g_device_lost = <<>>
    /\ call = IdleCall

\* set[f]: a programmatic setter was called for f since the process started
NoGateQ == [f |-> "none", res |-> FALSE, disable |-> FALSE, enable |-> FALSE,
            markerOk |-> FALSE, memo |-> [enabled |-> FALSE, inited |-> FALSE],
            set |-> [f \in Features |-> FALSE]]

\* the registry operations made so far, oldest first, each
\* [op, device, reason, ret, before]: before is the registry when it began
NoLostQ == <<>>

\* len: length of the stored message; err: length of the dlerror() text;
\* asked, n: a length query was made, and what it returned; out, out_len: the
\* caller's buffer (out: non-NULL); ret, written: the fetch's result and the
\* number of bytes it wrote into the buffer
\* data, native: the message the native library last delivered to the callback
\* (data: message.data non-NULL; native: message.length); copied: the bytes the
\* callback copied into the result record
NoMsgQ == [helper |-> "none", op |-> "none", len |-> 0, err |-> 0, asked |-> FALSE, n |-> 0,
           out |-> FALSE, out_len |-> 0, ret |-> FALSE, written |-> 0,
           data |-> FALSE, native |-> 0, copied |-> 0]

\* v: what getenv returns for the flag's variable; labels: the memo
\* g_mbt_wgpu_debug_labels_enabled / _inited
NoFlagQ == [helper |-> "none", v |-> NULLSTR, done |-> FALSE, ret |-> FALSE,
            labels |-> [enabled |-> FALSE, inited |-> FALSE]]

\* The diagnostic call in progress.  op, out, out_len: the entry point and its
\* arguments (out: non-NULL); lib: the handle its own dlopen returned; n: the
\* length of the trace; ret: the value returned; refs: per library (1, 2, see
\* LibAt; 3, a library without the probe symbol), the references the
\* diagnostic has opened and not yet closed; lines: the lines of the trace, each
\* named by its fixed prefix.
NoDiag == [pc |-> "idle", op |-> "none", out |-> FALSE, out_len |-> 0, lib |-> 0,
           n |-> 0, ret |-> 0, refs |-> [l \in 1..3 |-> 0], lines |-> <<>>]

\* A thread's call into the device-lost registry.  op, device, reason: the call
\* and its arguments; idx: the index its scan found (0: none); ret: what a take
\* returned; overlap: another thread's call was under way when this one began.
IdleLostFrame == [pc |-> "idle", op |-> "none", device |-> 0, reason |-> 0, idx |-> 0,
                  ret |-> 0, overlap |-> FALSE]

\* issued: the non-zero future ids handed out; pending: those whose work-done
\* callback is registered with the native library and has not run; ran: those
\* whose callback has run; calls: the wait_any calls made, oldest first.
NoWaitQ == [issued |-> {}, pending |-> {}, ran |-> {}, calls |-> <<>>]

MtInit ==
    /\ sth = [t \in Threads |-> IdleLostFrame]
    /\ g_device_lost_mu = 0
    /\ g_wait_any_entries = <<>>
    /\ g_wait_any_next_id = 1
    /\ waitQ = NoWaitQ

AuxInit ==
    /\ gateQ = NoGateQ
    /\ lostQ = NoLostQ
    /\ msgQ = NoMsgQ
    /\ flagQ = NoFlagQ
    /\ diag = NoDiag
    /\ MtInit

----------------------------------------------------------------------------
\* Specification of the path resolver alone.

InitPath ==
    /\ platform \in Platforms
    /\ \E o \in OverrideVals, h \in HomeValsAll :
          env = [v \in EnvVars |-> IF v = "MBT_WGPU_NATIVE_LIB" THEN o
                                   ELSE IF v = HomeVar(platform) THEN h ELSE NULLSTR]
    /\ fs = [p \in CandidatePaths |-> NoLib]
    /\ pathCall = [pc |-> "idle", buflen |-> 0, ret |-> NULLSTR]
    /\ LoaderInit
    /\ SyncInit
    /\ AuxInit

\* const char *path = mbt_wgpu_native_resolve_lib_path(buf, sizeof(buf));
ResolveLibPath(buflen) ==
    /\ pathCall.pc = "idle"
    /\ pathCall' = [pc |-> "done", buflen |-> buflen,
                    ret |-> mbt_wgpu_native_resolve_lib_path(platform, env, buflen)]
    /\ UNCHANGED <<auxVars, syncVars, platform, env, fs, loaderVars>>

NextPath == \E b \in {FallbackBufLen, MarkerBufLen} : ResolveLibPath(b)

SpecPath == InitPath /\ [][NextPath]_vars

----------------------------------------------------------------------------
\* Symbols.  dlsym(handle, name) yields a pointer that identifies the library
\* and the symbol, or NULL (0).

SymNames == <<"wgpuCreateInstance", "wgpuDeviceCreateComputePipelineAsync",
              "wgpuDeviceCreateRenderPipelineAsync", "wgpuShaderModuleGetCompilationInfo">>

SymIndex(n) == CHOOSE i \in 1..Len(SymNames) : SymNames[i] = n

Exports(lib) ==
    IF lib = 1 THEN {SymNames[i] : i \in 1..Len(SymNames)}
    ELSE IF lib = 2 THEN {"wgpuCreateInstance"}
    ELSE {}

Dlsym(lib, n) == IF n \in Exports(lib) THEN 10 * lib + SymIndex(n) ELSE 0

\* names a caller may pass
CallNames == {NullName, Name(""), Name("wgpuDeviceCreateComputePipelineAsync")}

----------------------------------------------------------------------------
\* Loader entry points.

Running == aborted.by = ""

\* variants: every entry point opens with the required policy / none does
OpensRequired_All(op) == TRUE
OpensRequired_None(op) == FALSE

OpensRequired(op) == op \in {"open_required", "sym_required"}

LoaderOps == {"open_required", "open_optional", "sym_required", "sym_optional",
              "available", "optional_sym"}

\* largest number of successful loads of one path the log distinguishes
MaxLoads == 3

LogLoad(l, path, lib) ==
    IF lib # NoLib /\ path \in DOMAIN l
    THEN [l EXCEPT ![path] = Min(@ + 1, MaxLoads)]
    ELSE l

\* Entry of mbt_wgpu_native_open_required/optional, mbt_wgpu_native_sym_required/
\* optional, mbt_wgpu_native_available_u32 and mbt_wgpu_optional_sym: the name
\* checks made before the library is opened.
Call(t, op, n) ==
    /\ Running
    /\ th[t].pc \in {"idle", "ret"}
    /\ LET name == IF op = "available" THEN Name("wgpuCreateInstance")
                   ELSE IF op \in {"open_required", "open_optional"} THEN NullName
                   ELSE n
           f == [IdleFrame EXCEPT !.op = op, !.name = name]
       IN  th' = [th EXCEPT ![t] =
                    IF op = "sym_required" /\ NameEmpty(name)
                    THEN [f EXCEPT !.pc = "die", !.why = "name"]
                    ELSE IF op \in {"sym_optional", "optional_sym"} /\ NameEmpty(name)
                    THEN [f EXCEPT !.pc = "ret", !.ret = 0]
                    ELSE IF op = "optional_sym"
                    THEN [f EXCEPT !.pc = "once"]
                    ELSE [f EXCEPT !.pc = "lock"]]
    /\ UNCHANGED <<auxVars, syncVars, platform, env, fs, pathCall, g_mbt_wgpu_native_lib, g_mbt_wgpu_native_mu,
                   g_mbt_wgpu_optional_lib, g_mbt_wgpu_optional_once, aborted, loads,
                   envChanges>>

\* variant: the cached handle is not consulted, every open loads again
OpenLock_NoCache(t) ==
    /\ Running
    /\ th[t].pc = "lock"
    /\ g_mbt_wgpu_native_mu = 0
    /\ th' = [th EXCEPT ![t].pc = "load"]
    /\ g_mbt_wgpu_native_mu' = t
    /\ UNCHANGED <<auxVars, syncVars, platform, env, fs, pathCall, g_mbt_wgpu_native_lib,
                   g_mbt_wgpu_optional_lib, g_mbt_wgpu_optional_once, aborted, loads,
                   envChanges>>

\* mbt_wgpu_native_open_impl: take the mutex; return the cached handle if set.
OpenLock(t) ==
    /\ Running
    /\ th[t].pc = "lock"
    /\ g_mbt_wgpu_native_mu = 0
    /\ IF g_mbt_wgpu_native_lib # NoLib
       THEN /\ th' = [th EXCEPT ![t].lib = g_mbt_wgpu_native_lib, ![t].pc = "opened"]
            /\ UNCHANGED g_mbt_wgpu_native_mu
       ELSE /\ th' = [th EXCEPT ![t].pc = "load"]
            /\ g_mbt_wgpu_native_mu' = t
    /\ UNCHANGED <<auxVars, syncVars, platform, env, fs, pathCall, g_mbt_wgpu_native_lib,
                   g_mbt_wgpu_optional_lib, g_mbt_wgpu_optional_once, aborted, loads,
                   envChanges>>

\* mbt_wgpu_native_open_impl: resolve the path and dlopen it, mutex held.  On
\* failure the mutex is released; the required policy goes on to mbt_wgpu_die.
OpenLoad(t) ==
    /\ Running
    /\ th[t].pc = "load"
    /\ LET path == mbt_wgpu_native_resolve_lib_path(platform, env, FallbackBufLen)
           lib == IF NonEmpty(path) THEN Dlopen(fs, path.s) ELSE NoLib
           why == IF NonEmpty(path) THEN "load" ELSE "path"
       IN  /\ loads' = IF NonEmpty(path) THEN LogLoad(loads, path.s, lib) ELSE loads
           /\ IF lib = NoLib
              THEN /\ g_mbt_wgpu_native_mu' = 0
                   /\ th' = [th EXCEPT ![t].lib = NoLib, ![t].why = why,
                                       ![t].pc = IF OpensRequired(th[t].op)
                                                 THEN "die" ELSE "opened"]
              ELSE /\ UNCHANGED g_mbt_wgpu_native_mu
                   /\ th' = [th EXCEPT ![t].lib = lib, ![t].pc = "store"]
    /\ UNCHANGED <<auxVars, syncVars, platform, env, fs, pathCall, g_mbt_wgpu_native_lib,
                   g_mbt_wgpu_optional_lib, g_mbt_wgpu_optional_once, aborted, envChanges>>

\* mbt_wgpu_native_open_impl: g_mbt_wgpu_native_lib = lib; unlock.
OpenStore(t) ==
    /\ Running
    /\ th[t].pc = "store"
    /\ g_mbt_wgpu_native_lib' = th[t].lib
    /\ g_mbt_wgpu_native_mu' = 0
    /\ th' = [th EXCEPT ![t].stored = TRUE, ![t].pc = "opened"]
    /\ UNCHANGED <<auxVars, syncVars, platform, env, fs, pathCall, g_mbt_wgpu_optional_lib,
                   g_mbt_wgpu_optional_once, aborted, loads, envChanges>>

\* variant: the required lookup returns the NULL of dlsym instead of aborting
AfterOpen_RequiredReturnsNull(f) ==
    LET sym == Dlsym(f.lib, f.name.s)
    IN  IF f.op \in {"open_required", "open_optional"}
        THEN [f EXCEPT !.ret = f.lib, !.pc = "ret"]
        ELSE IF f.op = "available"
        THEN [f EXCEPT !.ret = IF f.lib # NoLib /\ sym # 0 THEN 1 ELSE 0, !.pc = "ret"]
        ELSE [f EXCEPT !.ret = IF f.lib = NoLib THEN 0 ELSE sym, !.pc = "ret"]

\* What the entry point does with the handle mbt_wgpu_native_open_impl returned.
AfterOpen(f) ==
    LET sym == Dlsym(f.lib, f.name.s)
    IN  IF f.op \in {"open_required", "open_optional"}
        THEN [f EXCEPT !.ret = f.lib, !.pc = "ret"]
        ELSE IF f.op = "sym_required"
        THEN IF sym = 0 THEN [f EXCEPT !.why = "sym", !.pc = "die"]
             ELSE [f EXCEPT !.ret = sym, !.pc = "ret"]
        ELSE IF f.op = "sym_optional"
        THEN [f EXCEPT !.ret = IF f.lib = NoLib THEN 0 ELSE sym, !.pc = "ret"]
        ELSE \* mbt_wgpu_native_available_u32
             [f EXCEPT !.ret = IF f.lib # NoLib /\ sym # 0 THEN 1 ELSE 0, !.pc = "ret"]

Return(t) ==
    /\ Running
    /\ th[t].pc = "opened"
    /\ th' = [th EXCEPT ![t] = AfterOpen(th[t])]
    /\ UNCHANGED <<auxVars, syncVars, platform, env, fs, pathCall, g_mbt_wgpu_native_lib, g_mbt_wgpu_native_mu,
                   g_mbt_wgpu_optional_lib, g_mbt_wgpu_optional_once, aborted, loads,
                   envChanges>>

\* mbt_wgpu_die: print the diagnostic and abort().
Die(t) ==
    /\ Running
    /\ th[t].pc = "die"
    /\ aborted' = [by |-> th[t].op, why |-> th[t].why]
    /\ th' = [th EXCEPT ![t].pc = "aborted"]
    /\ UNCHANGED <<auxVars, syncVars, platform, env, fs, pathCall, g_mbt_wgpu_native_lib, g_mbt_wgpu_native_mu,
                   g_mbt_wgpu_optional_lib, g_mbt_wgpu_optional_once, loads, envChanges>>

\* mbt_wgpu_optional_init, run by pthread_once: override, else the default
\* path; dlopen it.  Yields the handle to store.
mbt_wgpu_optional_init(p, e, f) ==
    LET path == mbt_wgpu_native_resolve_lib_path(p, e, FallbackBufLen)
    IN  IF NonEmpty(path) THEN Dlopen(f, path.s) ELSE NoLib

\* mbt_wgpu_optional_sym(name) in the current state: the name check,
\* pthread_once(mbt_wgpu_optional_init), then dlsym on the probe's own handle.
\* Yields the pointer with the probe's handle and the load log afterwards.
mbt_wgpu_optional_sym(n) ==
    LET first == g_mbt_wgpu_optional_once = "init"
        path == mbt_wgpu_native_resolve_lib_path(platform, env, FallbackBufLen)
        lib == IF first THEN mbt_wgpu_optional_init(platform, env, fs)
               ELSE g_mbt_wgpu_optional_lib
    IN  IF NameEmpty(n)
        THEN [ret |-> 0, lib |-> g_mbt_wgpu_optional_lib, once |-> g_mbt_wgpu_optional_once,
              loads |-> loads]
        ELSE [ret |-> IF lib = NoLib THEN 0 ELSE Dlsym(lib, n.s),
              lib |-> lib, once |-> "done",
              loads |-> IF first /\ NonEmpty(path) THEN LogLoad(loads, path.s, lib)
                        ELSE loads]

OptionalSym(t) ==
    /\ Running
    /\ th[t].pc = "once"
    /\ LET r == mbt_wgpu_optional_sym(th[t].name)
       IN  /\ g_mbt_wgpu_optional_lib' = r.lib
           /\ g_mbt_wgpu_optional_once' = r.once
           /\ loads' = r.loads
           /\ th' = [th EXCEPT ![t].lib = r.lib, ![t].pc = "ret", ![t].ret = r.ret]
    /\ UNCHANGED <<auxVars, syncVars, platform, env, fs, pathCall, g_mbt_wgpu_native_lib, g_mbt_wgpu_native_mu,
                   aborted, envChanges>>

\* The host changes the environment, or a library is installed or removed,
\* between calls.
MaxEnvChanges == 1

SetEnv ==
    /\ Running
    /\ envChanges < MaxEnvChanges
    /\ envChanges' = envChanges + 1
    /\ \E v \in {"MBT_WGPU_NATIVE_LIB", "HOME"} :
       \E x \in (IF v = "HOME" THEN LoadHomeVals ELSE LoadOverrideVals) \ {env[v]} :
          env' = [env EXCEPT ![v] = x]
    /\ UNCHANGED <<auxVars, syncVars, platform, fs, pathCall, g_mbt_wgpu_native_lib, g_mbt_wgpu_native_mu,
                   g_mbt_wgpu_optional_lib, g_mbt_wgpu_optional_once, th, aborted, loads>>

InstallLib ==
    /\ Running
    /\ envChanges < MaxEnvChanges
    /\ envChanges' = envChanges + 1
    /\ \E p \in CandidatePaths :
          fs' = [fs EXCEPT ![p] = IF @ = NoLib THEN LibAt(p) ELSE NoLib]
    /\ UNCHANGED <<auxVars, syncVars, platform, env, pathCall, g_mbt_wgpu_native_lib, g_mbt_wgpu_native_mu,
                   g_mbt_wgpu_optional_lib, g_mbt_wgpu_optional_once, th, aborted, loads>>

InitLoad ==
    /\ platform = "linux"
    /\ \E o \in {NULLSTR, Str(PathA)}, h \in {NULLSTR, Str(HomeH)} :
          env = [v \in EnvVars |-> IF v = "MBT_WGPU_NATIVE_LIB" THEN o
                                   ELSE IF v = "HOME" THEN h ELSE NULLSTR]
    /\ fs \in {f \in [CandidatePaths -> {NoLib, 1, 2}] :
                  \A p \in CandidatePaths : f[p] \in {NoLib, LibAt(p)}}
    /\ pathCall = [pc |-> "idle", buflen |-> 0, ret |-> NULLSTR]
    /\ LoaderInit
    /\ SyncInit
    /\ AuxInit

NextLoad ==
    \/ \E t \in Threads, op \in LoaderOps, n \in CallNames : Call(t, op, n)
    \/ \E t \in Threads : OpenLock(t)
    \/ \E t \in Threads : OpenLoad(t)
    \/ \E t \in Threads : OpenStore(t)
    \/ \E t \in Threads : Return(t)
    \/ \E t \in Threads : Die(t)
    \/ \E t \in Threads : OptionalSym(t)
    \/ SetEnv
    \/ InstallLib

SpecLoad == InitLoad /\ [][NextLoad]_vars

----------------------------------------------------------------------------
\* Properties of the loader (checked under SpecLoad).

OpenOps == {"open_required", "open_optional"}
OptionalOps == {"open_optional", "sym_optional", "optional_sym", "available"}

Returned(t, op) == th[t].op = op /\ th[t].pc = "ret"

\* what a load attempted right now would yield
LoadNow == LET path == mbt_wgpu_native_resolve_lib_path(platform, env, FallbackBufLen)
           IN  IF NonEmpty(path) THEN Dlopen(fs, path.s) ELSE NoLib

\* C1: once the cached handle is non-NULL it is never reassigned, and every
\* successful mbt_wgpu_native_open_required / mbt_wgpu_native_open_optional
\* returns that handle, from any thread and under any interleaving.
C1_HandleSetOnce ==
    [][ /\ (g_mbt_wgpu_native_lib # NoLib => g_mbt_wgpu_native_lib' = g_mbt_wgpu_native_lib)
        /\ \A t \in Threads :
              (th'[t].op \in OpenOps /\ th'[t].pc = "ret" /\ th'[t].ret # 0)
                 => th'[t].ret = g_mbt_wgpu_native_lib' ]_vars

\* two threads have opened successfully, and a fresh load would no longer
\* yield the cached handle
C1_Witness ==
    /\ g_mbt_wgpu_native_lib # NoLib
    /\ Returned(1, "open_required") /\ th[1].ret = g_mbt_wgpu_native_lib
    /\ Returned(2, "open_optional") /\ th[2].ret = g_mbt_wgpu_native_lib
    /\ LoadNow # g_mbt_wgpu_native_lib

\* C2: across the open and symbol-lookup entry points (mbt_wgpu_optional_sym
\* included), dlopen succeeds at most once per process for a resolved path.
C2_LoadedAtMostOnce == \A p \in CandidatePaths : loads[p] <= 1

\* C3: no optional-policy entry point aborts; when the path cannot be resolved,
\* the load fails, the name is NULL or empty, or the symbol is absent, it
\* returns NULL (0 for the availability probe).
C3_OptionalNeverAborts ==
    /\ aborted.by \notin OptionalOps
    /\ \A t \in Threads :
          th[t].op \in OptionalOps =>
             /\ th[t].pc \notin {"die", "aborted"}
             /\ (th[t].pc = "ret" /\ ( \/ th[t].lib = NoLib
                                       \/ (th[t].op \notin OpenOps /\ NameEmpty(th[t].name))
                                       \/ (th[t].op \notin OpenOps
                                             /\ th[t].name.s \notin Exports(th[t].lib))))
                   => th[t].ret = 0

\* an optional lookup found the path unresolvable, another found the symbol
\* absent from the loaded library, and both returned NULL
C3_Witness ==
    /\ Returned(1, "sym_optional") /\ th[1].why = "path" /\ th[1].ret = 0
    /\ Returned(2, "optional_sym") /\ th[2].lib # NoLib /\ th[2].ret = 0
    /\ ~NameEmpty(th[2].name)

\* C4: mbt_wgpu_native_open_required never returns NULL: it aborts, having
\* stored no handle, when the path cannot be resolved or the load fails, and
\* otherwise returns the non-NULL cached handle.
C4_RequiredOpenNeverNull ==
    \A t \in Threads :
       th[t].op = "open_required" =>
          /\ th[t].pc = "ret" => (th[t].ret # 0 /\ th[t].ret = g_mbt_wgpu_native_lib)
          /\ th[t].pc \in {"die", "aborted"} =>
                (th[t].why \in {"path", "load"} /\ th[t].lib = NoLib /\ ~th[t].stored)
          /\ (th[t].pc = "opened" => th[t].lib # NoLib)

\* one required open aborted on a failed load while another required open,
\* made once the library was loadable, returned the handle
C4_Witness ==
    /\ aborted.by = "open_required" /\ aborted.why = "load"
    /\ \E t \in Threads : Returned(t, "open_required") /\ th[t].ret # 0

\* C5: required and optional symbol lookup agree against the same loaded
\* library: a name the optional lookup reports absent makes the required lookup
\* abort; a name it reports present yields the identical pointer.
C5_RequiredOptionalAgree ==
    \A t1, t2 \in Threads :
       (Returned(t1, "sym_optional") /\ th[t2].op = "sym_required"
           /\ th[t2].name = th[t1].name) =>
          /\ (th[t1].ret = 0 /\ (th[t1].lib # NoLib \/ NameEmpty(th[t1].name)))
                => th[t2].pc # "ret"
          /\ (th[t1].ret # 0 /\ th[t2].pc = "ret") => th[t2].ret = th[t1].ret
          /\ (th[t1].ret # 0 /\ th[t2].lib = th[t1].lib) => th[t2].pc \notin {"die", "aborted"}

\* the optional lookup reported a symbol absent from the loaded library and the
\* required lookup of the same name aborted
C5_Witness ==
    /\ Returned(1, "sym_optional") /\ th[1].lib # NoLib /\ th[1].ret = 0
    /\ th[2].op = "sym_required" /\ th[2].name = th[1].name
    /\ th[2].pc = "aborted" /\ th[2].why = "sym" /\ th[2].lib = th[1].lib

----------------------------------------------------------------------------
\* Properties of the path resolver (checked under SpecPath).

\* C6: if MBT_WGPU_NATIVE_LIB is set and non-empty the resolved path is exactly
\* the override, whatever the home-directory variable holds.
C6_OverrideWins ==
    (pathCall.pc = "done" /\ NonEmpty(env["MBT_WGPU_NATIVE_LIB"]))
       => pathCall.ret = env["MBT_WGPU_NATIVE_LIB"]

C6_Witness ==
    /\ pathCall.pc = "done"
    /\ NonEmpty(env["MBT_WGPU_NATIVE_LIB"])
    /\ env[HomeVar(platform)] = NULLSTR
    /\ pathCall.ret = Str(PathA)

\* C7: with the override unset or empty, resolution yields NULL when the
\* home-directory variable is unset or empty and otherwise exactly
\* home + sub-path + library filename, for a home of any length.
C7_DefaultPathExact ==
    (pathCall.pc = "done" /\ ~NonEmpty(env["MBT_WGPU_NATIVE_LIB"]))
       => pathCall.ret = IF ~NonEmpty(env[HomeVar(platform)]) THEN NULLSTR
                         ELSE Str(DefaultLibPath(platform, env[HomeVar(platform)].s))

----------------------------------------------------------------------------
\* Feature gate (wgpu_stub_helpers_sync.c).

TruthySpellings == {<<"1">>, <<"t","r","u","e">>, <<"T","R","U","E">>, <<"y","e","s">>,
                    <<"Y","E","S">>, <<"o","n">>, <<"O","N">>}

mbt_wgpu_env_truthy(e, name) == NonEmpty(e[name]) /\ e[name].s \in TruthySpellings

DisableVar(f) == IF f = "pipeline_async" THEN "MBT_WGPU_DISABLE_PIPELINE_ASYNC"
                 ELSE "MBT_WGPU_DISABLE_COMPILATION_INFO"

EnableVar(f) == IF f = "pipeline_async" THEN "MBT_WGPU_ENABLE_PIPELINE_ASYNC"
                ELSE "MBT_WGPU_ENABLE_COMPILATION_INFO"

\* variant: any marker with a lib_path line is trusted
mbt_wgpu_marker_allows_current_lib_AnyPath(p, e, m, f) ==
    /\ IF p = "windows" THEN NonEmpty(e["USERPROFILE"])
       ELSE NonEmpty(e["XDG_DATA_HOME"]) \/ NonEmpty(e["HOME"])
    /\ NonEmpty(m[f])

\* The marker file of feature f is found under XDG_DATA_HOME or HOME
\* (USERPROFILE on Windows); m[f] is
\* the text after "lib_path=" on its first line (NULL: no file, or no such
\* line).  It must equal the currently resolved library path.
mbt_wgpu_marker_allows_current_lib(p, e, m, f) ==
    LET current_path == mbt_wgpu_native_resolve_lib_path(p, e, MarkerBufLen)
    IN  /\ IF p = "windows" THEN NonEmpty(e["USERPROFILE"])
           ELSE NonEmpty(e["XDG_DATA_HOME"]) \/ NonEmpty(e["HOME"])
        /\ NonEmpty(m[f])
        /\ NonEmpty(current_path)
        /\ m[f].s = current_path.s

\* variant: the decision is evaluated afresh at every query, nothing is kept
GateEnabled_NoMemo(f, p, e, m, g) ==
    IF mbt_wgpu_env_truthy(e, DisableVar(f)) THEN [res |-> FALSE, g |-> g]
    ELSE LET en == \/ mbt_wgpu_env_truthy(e, EnableVar(f))
                   \/ mbt_wgpu_marker_allows_current_lib(p, e, m, f)
         IN  [res |-> en, g |-> [enabled |-> en, inited |-> TRUE]]

\* variant: a memoized decision is returned before the disable variable is read
GateEnabled_MemoFirst(f, p, e, m, g) ==
    IF g.inited THEN [res |-> g.enabled, g |-> g]
    ELSE IF mbt_wgpu_env_truthy(e, DisableVar(f)) THEN [res |-> FALSE, g |-> g]
    ELSE LET en == \/ mbt_wgpu_env_truthy(e, EnableVar(f))
                   \/ mbt_wgpu_marker_allows_current_lib(p, e, m, f)
         IN  [res |-> en, g |-> [enabled |-> en, inited |-> TRUE]]

\* mbt_wgpu_pipeline_async_enabled / mbt_wgpu_compilation_info_enabled: the
\* answer, and the memo afterwards.
GateEnabled(f, p, e, m, g) ==
    IF mbt_wgpu_env_truthy(e, DisableVar(f))
    THEN [res |-> FALSE, g |-> g]
    ELSE IF ~g.inited
    THEN LET en == \/ mbt_wgpu_env_truthy(e, EnableVar(f))
                   \/ mbt_wgpu_marker_allows_current_lib(p, e, m, f)
         IN  [res |-> en, g |-> [enabled |-> en, inited |-> TRUE]]
    ELSE [res |-> g.enabled, g |-> g]

----------------------------------------------------------------------------
\* Device-lost registry (wgpu_stub_helpers_sync.c).

\* sizeof(g_device_lost) / sizeof(g_device_lost[0])
DeviceLostCap == 16

Devices == {1, 2}

\* WGPUDeviceLostReason values delivered or synthesized (2 = Destroyed)
LostReasons == {1, 2}

IndexOf(reg, d) ==
    IF \E k \in 1..Len(reg) : reg[k].device = d
    THEN CHOOSE k \in 1..Len(reg) :
            reg[k].device = d /\ \A j \in 1..(k - 1) : reg[j].device # d
    ELSE 0

\* variant: a new device is appended without looking at the capacity
mbt_device_lost_upsert_NoCap(reg, d, reason) ==
    LET k == IndexOf(reg, d)
    IN  IF k # 0 THEN [reg EXCEPT ![k].reason = reason]
        ELSE Append(reg, [device |-> d, reason |-> reason])

mbt_device_lost_upsert(reg, d, reason) ==
    LET k == IndexOf(reg, d)
    IN  IF k # 0 THEN [reg EXCEPT ![k].reason = reason]
        ELSE IF Len(reg) < DeviceLostCap
        THEN Append(reg, [device |-> d, reason |-> reason])
        ELSE reg

\* variant: the reason is read but the entry stays in the registry
mbt_wgpu_device_take_lost_reason_u32_Keep(reg, d) ==
    LET k == IndexOf(reg, d)
    IN  IF k = 0 THEN [reason |-> 0, reg |-> reg]
        ELSE [reason |-> reg[k].reason, reg |-> reg]

\* mbt_wgpu_device_take_lost_reason_u32: the reason (0: none) and the registry
\* after the entry was removed by swapping in the last element.
mbt_wgpu_device_take_lost_reason_u32(reg, d) ==
    LET k == IndexOf(reg, d)
    IN  IF k = 0 THEN [reason |-> 0, reg |-> reg]
        ELSE [reason |-> reg[k].reason,
              reg |-> SubSeq([reg EXCEPT ![k] = reg[Len(reg)]], 1, Len(reg) - 1)]

----------------------------------------------------------------------------
\* Synchronous-callback adapters.

UnboundedFns == {"request_adapter", "request_device", "queue_work_done", "buffer_map",
                 "pop_error_scope"}
LenientFns == {"compute_lenient", "render_lenient"}
StrictFns == {"compute_strict", "render_strict"}
GatedFns == LenientFns \cup StrictFns \cup {"compilation_info"}
BoundedFns == GatedFns \cup {"wait_lost"}
SyncFns == UnboundedFns \cup BoundedFns

FeatureOf(fn) == IF fn = "compilation_info" THEN "compilation_info" ELSE "pipeline_async"

SiteSymbol(fn) ==
    IF fn \in {"compute_lenient", "compute_strict"} THEN "wgpuDeviceCreateComputePipelineAsync"
    ELSE IF fn \in {"render_lenient", "render_strict"} THEN "wgpuDeviceCreateRenderPipelineAsync"
    ELSE "wgpuShaderModuleGetCompilationInfo"

\* const int max_iters = 2000;
max_iters == 2000

\* status the native callback reports (1 = Success), and the handle it passes
Statuses == {1, 2}
AsyncHandle == 7
Payloads == {0, AsyncHandle}
\* what the blocking wgpuDeviceCreate*Pipeline returns
SyncHandle == 8
\* the calloc'ed mbt_compilation_info_t returned by the compilation-info fetch
InfoRecord == 9

MBT_WGPU_PIPELINE_ASYNC_ERR_NONE == 0
MBT_WGPU_PIPELINE_ASYNC_ERR_DISABLED == 1
MBT_WGPU_PIPELINE_ASYNC_ERR_MISSING_SYMBOL == 2
MBT_WGPU_PIPELINE_ASYNC_ERR_TIMEOUT == 3
MBT_WGPU_PIPELINE_ASYNC_ERR_FAILED == 4
MBT_WGPU_PIPELINE_ASYNC_ERR_INVALID_INPUT == 5
MBT_WGPU_COMPILATION_INFO_ERR_ALLOC_FAILED == 4

\* variant: the error kind is left at "none" whatever happened
SetKind_AlwaysNone(fn, k) ==
    IF fn = "compilation_info"
    THEN [lastErr EXCEPT !.ci_status = 0, !.ci_kind = 0]
    ELSE [lastErr EXCEPT !.pipeline_status = 0, !.pipeline_kind = 0]

\* the thread-local error kind of a strict call set to k (status reset to 0)
SetKind(fn, k) ==
    IF fn = "compilation_info"
    THEN [lastErr EXCEPT !.ci_status = 0, !.ci_kind = k]
    ELSE [lastErr EXCEPT !.pipeline_status = 0, !.pipeline_kind = k]

\* the call returns r; sync tells whether the blocking entry point produced it
Finish(c, r, sync) == [c EXCEPT !.pc = "done", !.ret = r, !.syncCalled = sync]

\* The asynchronous native call is issued with the result record at status 0;
\* the callback may already run inside the issuing call.
Issue(c, fire, st, pl) ==
    IF fire
    THEN [c EXCEPT !.pc = "wait", !.issued = TRUE, !.cbRan = TRUE, !.status = st,
                   !.payload = pl]
    ELSE [c EXCEPT !.pc = "wait", !.issued = TRUE]

\* The unbounded adapters up to their wait loop.  mbt_wgpu_device_pop_error_scope_sync
\* and mbt_wgpu_buffer_map_read_sync return early on their argument checks.
BeginUnbounded ==
    /\ call.pc = "idle"
    /\ call.fn \in UnboundedFns
    /\ IF \/ (call.fn = "pop_error_scope" /\ ~(call.instance /\ call.argsOk))
          \/ (call.fn = "buffer_map" /\ ~call.argsOk)
       THEN call' = Finish(call, 0, FALSE)
       ELSE \E fire \in BOOLEAN, st \in Statuses, pl \in Payloads :
               call' = Issue(call, fire, st, pl)
    /\ UNCHANGED <<auxVars, platform, env, fs, pathCall, loaderVars, marker, gate, statics, lastErr,
                   g_device_lost>>

\* The lenient and strict async pipeline creators and the compilation-info
\* fetch up to their wait loop: argument checks, feature gate, the static
\* checked-once symbol lookup, the record allocation, the native call.
BeginGated ==
    /\ call.pc = "idle"
    /\ call.fn \in GatedFns
    /\ LET fn == call.fn
           f == FeatureOf(fn)
           lenient == fn \in LenientFns
           invalid == ~lenient /\ ~(call.instance /\ call.argsOk)
           gateRun == IF lenient THEN call.instance ELSE ~invalid
           ge == GateEnabled(f, platform, env, marker, gate[f])
           enabled == gateRun /\ ge.res
           look == mbt_wgpu_optional_sym(Name(SiteSymbol(fn)))
           lookup == enabled /\ ~statics[fn].checked
           pfn == IF lookup THEN look.ret ELSE statics[fn].pfn
       IN  /\ gate' = IF gateRun THEN [gate EXCEPT ![f] = ge.g] ELSE gate
           /\ statics' = IF lookup THEN [statics EXCEPT ![fn] = [checked |-> TRUE, pfn |-> pfn]]
                         ELSE statics
           /\ g_mbt_wgpu_optional_lib' = IF lookup THEN look.lib ELSE g_mbt_wgpu_optional_lib
           /\ g_mbt_wgpu_optional_once' = IF lookup THEN look.once ELSE g_mbt_wgpu_optional_once
           /\ loads' = IF lookup THEN look.loads ELSE loads
           /\ IF lenient
              THEN /\ UNCHANGED lastErr
                   /\ IF enabled /\ pfn # 0
                      THEN \E fire \in BOOLEAN, st \in Statuses, pl \in Payloads :
                              call' = Issue(call, fire, st, pl)
                      ELSE call' = Finish(call, SyncHandle, TRUE)
              ELSE IF invalid
              THEN /\ lastErr' = SetKind(fn, MBT_WGPU_PIPELINE_ASYNC_ERR_INVALID_INPUT)
                   /\ call' = Finish(call, 0, FALSE)
              ELSE IF ~enabled
              THEN /\ lastErr' = SetKind(fn, MBT_WGPU_PIPELINE_ASYNC_ERR_DISABLED)
                   /\ call' = Finish(call, 0, FALSE)
              ELSE IF pfn = 0
              THEN /\ lastErr' = SetKind(fn, MBT_WGPU_PIPELINE_ASYNC_ERR_MISSING_SYMBOL)
                   /\ call' = Finish(call, 0, FALSE)
              ELSE \/ /\ fn = "compilation_info"       \* calloc fails
                      /\ lastErr' = SetKind(fn, MBT_WGPU_COMPILATION_INFO_ERR_ALLOC_FAILED)
                      /\ call' = Finish(call, 0, FALSE)
                   \/ /\ lastErr' = SetKind(fn, MBT_WGPU_PIPELINE_ASYNC_ERR_NONE)
                      /\ \E fire \in BOOLEAN, st \in Statuses, pl \in Payloads :
                            call' = Issue(call, fire, st, pl)
    /\ UNCHANGED <<auxVars, platform, env, fs, pathCall, g_mbt_wgpu_native_lib, g_mbt_wgpu_native_mu,
                   th, aborted, envChanges, marker, g_device_lost>>

\* variant: only the bounded loops go on polling while the record is pending
LoopContinues_BoundedOnly(fn, i, status) ==
    status = 0 /\ fn \in BoundedFns /\ i < max_iters

\* The loop condition: `while (out.status == 0)`, and for the bounded adapters
\* `i < max_iters && out.status == 0`.
LoopContinues(fn, i, status) ==
    status = 0 /\ (fn \in BoundedFns => i < max_iters)

\* variant: the loops never count their iterations
NextIter_NoCount(fn, i) == i

\* `i++` of the bounded for-loops; the while-loops keep no counter.
NextIter(fn, i) == IF fn \in BoundedFns THEN i + 1 ELSE i

\* One iteration of a wait loop: wgpuDevicePoll / wgpuInstanceProcessEvents may
\* run the callback, which writes the result record; then the 1 ms sleep and
\* i++ of the bounded loops.
Poll ==
    /\ call.pc = "wait"
    /\ call.fn # "wait_lost"
    /\ LoopContinues(call.fn, call.i, call.status)
    /\ \E fire \in BOOLEAN, st \in Statuses, pl \in Payloads :
          call' = [call EXCEPT !.i = NextIter(call.fn, @),
                               !.cbRan = @ \/ fire,
                               !.status = IF fire THEN st ELSE @,
                               !.payload = IF fire THEN pl ELSE @]
    /\ UNCHANGED <<auxVars, platform, env, fs, pathCall, loaderVars, marker, gate, statics, lastErr,
                   g_device_lost>>

\* variant: when the async result is unusable the lenient creator returns it
\* as it is
LenientResult_NoFallback(status, payload) == [ret |-> payload, sync |-> FALSE]

\* What a lenient creator returns after its loop: the async pipeline, else the
\* result of the blocking wgpuDeviceCreate*Pipeline.
LenientResult(status, payload) ==
    IF status = 1 /\ payload # 0 THEN [ret |-> payload, sync |-> FALSE]
    ELSE [ret |-> SyncHandle, sync |-> TRUE]

\* After the loop: read the result record and return.
Exit ==
    /\ call.pc = "wait"
    /\ call.fn # "wait_lost"
    /\ ~LoopContinues(call.fn, call.i, call.status)
    /\ LET fn == call.fn
           ok == call.status = 1 /\ call.payload # 0
       IN  IF fn \in LenientFns
           THEN /\ call' = Finish(call, LenientResult(call.status, call.payload).ret,
                                  LenientResult(call.status, call.payload).sync)
                /\ UNCHANGED lastErr
           ELSE IF fn \in StrictFns
           THEN IF call.status = 0
                THEN /\ lastErr' = SetKind(fn, MBT_WGPU_PIPELINE_ASYNC_ERR_TIMEOUT)
                     /\ call' = Finish(call, 0, FALSE)
                ELSE /\ lastErr' = [lastErr EXCEPT
                                      !.pipeline_status = call.status,
                                      !.pipeline_kind =
                                          IF ok THEN @ ELSE MBT_WGPU_PIPELINE_ASYNC_ERR_FAILED]
                     /\ call' = Finish(call, IF ok THEN call.payload ELSE 0, FALSE)
           ELSE IF fn = "compilation_info"
           THEN IF call.status = 0
                THEN /\ lastErr' = SetKind(fn, MBT_WGPU_PIPELINE_ASYNC_ERR_TIMEOUT)
                     /\ call' = Finish(call, 0, FALSE)
                ELSE /\ lastErr' = [lastErr EXCEPT !.ci_status = call.status]
                     /\ call' = Finish(call, InfoRecord, FALSE)
           ELSE /\ call' = Finish(call, IF fn = "queue_work_done" THEN call.status
                                        ELSE IF call.status = 1 THEN call.payload ELSE 0,
                                  FALSE)
                /\ UNCHANGED lastErr
    /\ UNCHANGED <<auxVars, platform, env, fs, pathCall, loaderVars, marker, gate, statics,
                   g_device_lost>>

\* The adapter has returned while its callback was still registered with the
\* native library (userdata1 = the result record, never cancelled).  A later
\* wgpuInstanceProcessEvents / wgpuDevicePoll of the process delivers it: the
\* callback (mbt_create_compute_pipeline_cb, mbt_create_render_pipeline_cb,
\* mbt_compilation_info_cb) writes through userdata1 into the record of the
\* call that has returned.
LateCallback ==
    /\ call.pc = "done"
    /\ call.issued
    /\ ~call.cbRan
    /\ ~call.lateWrite
    /\ call' = [call EXCEPT !.lateWrite = TRUE]
    /\ UNCHANGED <<auxVars, platform, env, fs, pathCall, loaderVars, marker, gate, statics, lastErr,
                   g_device_lost>>

\* mbt_wgpu_device_wait_lost_reason_sync_u32(instance, device); call.payload is
\* the device.  An iteration takes the reason and returns it if there is one;
\* else it polls, during which mbt_device_lost_cb may record a loss.
BeginWaitLost ==
    /\ call.pc = "idle"
    /\ call.fn = "wait_lost"
    /\ call' = [call EXCEPT !.pc = "wait", !.pre = IndexOf(g_device_lost, call.payload) # 0]
    /\ UNCHANGED <<auxVars, platform, env, fs, pathCall, loaderVars, marker, gate, statics, lastErr,
                   g_device_lost>>

WaitLostIter ==
    /\ call.pc = "wait"
    /\ call.fn = "wait_lost"
    /\ call.i < max_iters
    /\ LET tk == mbt_wgpu_device_take_lost_reason_u32(g_device_lost, call.payload)
       IN  IF tk.reason # 0
           THEN /\ g_device_lost' = tk.reg
                /\ call' = Finish(call, tk.reason, FALSE)
           ELSE \/ /\ call' = [call EXCEPT !.i = NextIter(call.fn, @)]
                   /\ g_device_lost' = tk.reg
                \/ \E d \in Devices, r \in LostReasons :
                      /\ g_device_lost' = mbt_device_lost_upsert(tk.reg, d, r)
                      /\ call' = [call EXCEPT !.i = NextIter(call.fn, @),
                                              !.cbRan = @ \/ d = call.payload]
    /\ UNCHANGED <<auxVars, platform, env, fs, pathCall, loaderVars, marker, gate, statics, lastErr>>

WaitLostExit ==
    /\ call.pc = "wait"
    /\ call.fn = "wait_lost"
    /\ ~(call.i < max_iters)
    /\ call' = Finish(call, 0, FALSE)
    /\ UNCHANGED <<auxVars, platform, env, fs, pathCall, loaderVars, marker, gate, statics, lastErr,
                   g_device_lost>>

----------------------------------------------------------------------------
\* Specification of one adapter call, made from any state the process can have
\* reached before it.

FlagVals == {NULLSTR, Str(<<"1">>)}

\* registries over Devices with distinct devices
Registries ==
    {<<>>} \cup {<<[device |-> d, reason |-> r]>> : d \in Devices, r \in LostReasons}
           \cup {<<[device |-> d, reason |-> r], [device |-> 3 - d, reason |-> q]>> :
                    d \in Devices, r \in LostReasons, q \in LostReasons}

InitSync ==
    /\ platform = "linux"
    /\ fs = [p \in CandidatePaths |-> LibAt(p)]
    /\ pathCall = [pc |-> "idle", buflen |-> 0, ret |-> NULLSTR]
    /\ g_mbt_wgpu_native_lib = NoLib
    /\ g_mbt_wgpu_native_mu = 0
    /\ th = [t \in Threads |-> IdleFrame]
    /\ aborted = NotAborted
    /\ loads = [p \in CandidatePaths |-> 0]
    /\ envChanges = 0
    /\ lastErr = NoLastErr
    /\ AuxInit
    /\ \E fn \in SyncFns :
          /\ \E inst \in BOOLEAN, ok \in BOOLEAN, d \in Devices :
                /\ (fn \in UnboundedFns \ {"pop_error_scope"} \/ fn = "wait_lost") => inst
                /\ (fn \in (UnboundedFns \ {"pop_error_scope", "buffer_map"})
                       \cup LenientFns \cup {"wait_lost"}) => ok
                /\ fn # "wait_lost" => d = 1
                /\ call = [IdleCall EXCEPT !.fn = fn, !.instance = inst, !.argsOk = ok,
                                           !.payload = IF fn = "wait_lost" THEN d ELSE 0]
          /\ IF fn = "wait_lost" THEN g_device_lost \in Registries ELSE g_device_lost = <<>>
          /\ IF fn \in GatedFns
             THEN /\ \E o \in LoadOverrideVals, dis \in FlagVals, en \in FlagVals :
                        env = [v \in EnvVars |->
                                 IF v = "MBT_WGPU_NATIVE_LIB" THEN o
                                 ELSE IF v = "HOME" THEN Str(HomeH)
                                 ELSE IF v = DisableVar(FeatureOf(fn)) THEN dis
                                 ELSE IF v = EnableVar(FeatureOf(fn)) THEN en
                                 ELSE NULLSTR]
                  /\ \E m \in {NULLSTR, Str(PathA)} :
                        marker = [f \in Features |-> IF f = FeatureOf(fn) THEN m ELSE NULLSTR]
                  /\ \E g \in {[enabled |-> FALSE, inited |-> FALSE],
                               [enabled |-> FALSE, inited |-> TRUE],
                               [enabled |-> TRUE, inited |-> TRUE]} :
                        gate = [f \in Features |->
                                  IF f = FeatureOf(fn) THEN g
                                  ELSE [enabled |-> FALSE, inited |-> FALSE]]
                  /\ \/ /\ g_mbt_wgpu_optional_once = "init"
                        /\ g_mbt_wgpu_optional_lib = NoLib
                     \/ /\ g_mbt_wgpu_optional_once = "done"
                        /\ g_mbt_wgpu_optional_lib \in {NoLib, 1, 2}
                  /\ \E chk \in BOOLEAN :
                        /\ chk => g_mbt_wgpu_optional_once = "done"
                        /\ statics = [s \in Sites |->
                              IF s = fn /\ chk
                              THEN [checked |-> TRUE,
                                    pfn |-> Dlsym(g_mbt_wgpu_optional_lib, SiteSymbol(fn))]
                              ELSE [checked |-> FALSE, pfn |-> 0]]
             ELSE /\ env = [v \in EnvVars |-> IF v = "HOME" THEN Str(HomeH) ELSE NULLSTR]
                  /\ marker = [f \in Features |-> NULLSTR]
                  /\ gate = [f \in Features |-> [enabled |-> FALSE, inited |-> FALSE]]
                  /\ statics = [s \in Sites |-> [checked |-> FALSE, pfn |-> 0]]
                  /\ g_mbt_wgpu_optional_once = "init"
                  /\ g_mbt_wgpu_optional_lib = NoLib

NextSync ==
    \/ BeginUnbounded
    \/ BeginGated
    \/ Poll
    \/ Exit
    \/ LateCallback
    \/ BeginWaitLost
    \/ WaitLostIter
    \/ WaitLostExit

SpecSync == InitSync /\ [][NextSync]_vars

\* The same, with the scheduler letting a call that can take a step take it.
SpecSyncFair == SpecSync /\ WF_vars(NextSync)

----------------------------------------------------------------------------
\* Properties of the synchronous-callback adapters.

Done == call.pc = "done"

\* C8 (as stated): every synchronous-callback adapter that issued its native
\* call returns only after the callback ran: at return the result record is
\* no longer at the pending sentinel 0.
C8_ReturnsOnlyAfterCallback ==
    (Done /\ call.issued) => call.status # 0

\* C8 (amended): an adapter returns with its result record still pending only
\* if it is one of the bounded ones (async pipeline creation, compilation-info
\* fetch) and has polled 2000 times; the unbounded ones (request adapter,
\* request device, queue work-done, buffer map, pop error scope) return only
\* after the callback ran and wrote the record.
C8_PendingOnlyAtTimeout ==
    /\ (Done /\ call.issued /\ call.status = 0) => (call.fn \in GatedFns /\ call.i = 2000)
    /\ (Done /\ call.issued /\ call.fn \in UnboundedFns) => (call.cbRan /\ call.status # 0)

C8_Witness ==
    Done /\ call.issued /\ call.fn = "request_adapter" /\ call.cbRan /\ call.status = 1
         /\ call.ret = AsyncHandle

\* C9: a bounded adapter call (device-lost wait, strict and lenient async
\* pipeline creation, compilation-info fetch) polls at most 2000 times, each
\* pass through its loop counting as one; if its callback never ran it returns
\* after exactly 2000 iterations with its timeout outcome: 0 from the
\* device-lost wait, NULL with error kind timed-out from the strict pipeline
\* creators and the compilation-info fetch, the blocking entry point's result
\* from the lenient creators.  Under fair scheduling the call returns.
C9_BoundedTimeout ==
    /\ [](call.i <= 2000)
    /\ [][(call.fn \in BoundedFns /\ call.pc = "wait" /\ call'.pc = "wait")
             => call'.i = call.i + 1]_vars
    /\ []((Done /\ call.fn = "wait_lost" /\ ~call.pre /\ ~call.cbRan)
             => (call.i = 2000 /\ call.ret = 0))
    /\ []((Done /\ call.fn \in StrictFns /\ call.issued /\ ~call.cbRan)
             => (call.i = 2000 /\ call.ret = 0 /\ lastErr.pipeline_kind = 3))
    /\ []((Done /\ call.fn = "compilation_info" /\ call.issued /\ ~call.cbRan)
             => (call.i = 2000 /\ call.ret = 0 /\ lastErr.ci_kind = 3))
    /\ []((Done /\ call.fn \in LenientFns /\ call.issued /\ ~call.cbRan)
             => (call.i = 2000 /\ call.syncCalled))
    /\ <>(call.fn \in BoundedFns => Done)

C9_Witness ==
    Done /\ call.fn = "compute_strict" /\ call.issued /\ ~call.cbRan /\ call.i = 2000
         /\ call.ret = 0 /\ lastErr.pipeline_kind = MBT_WGPU_PIPELINE_ASYNC_ERR_TIMEOUT

\* C10: a lenient async pipeline creator that finds asynchronous creation
\* disabled by the feature gate, or the async entry point unavailable, or whose
\* bounded wait times out, has called the blocking pipeline-creation entry
\* point and returns its result.
C10_LenientFallsBack ==
    (/\ Done
     /\ call.fn \in LenientFns
     /\ \/ ~GateEnabled("pipeline_async", platform, env, marker, gate["pipeline_async"]).res
        \/ (statics[call.fn].checked /\ statics[call.fn].pfn = 0)
        \/ (call.issued /\ call.status = 0))
    => (call.syncCalled /\ call.ret = SyncHandle)

C10_Witness ==
    Done /\ call.fn = "render_lenient" /\ call.issued /\ call.status = 0 /\ call.i = 2000
         /\ call.syncCalled /\ call.ret = SyncHandle

----------------------------------------------------------------------------
\* Properties of the strict wrappers.

StrictWrappers == StrictFns \cup {"compilation_info"}

\* the error kind the last strict call of this kind left behind
LastKind == IF call.fn = "compilation_info" THEN lastErr.ci_kind ELSE lastErr.pipeline_kind

InputValid == call.instance /\ call.argsOk

GateOff == ~GateEnabled(FeatureOf(call.fn), platform, env, marker, gate[FeatureOf(call.fn)]).res

SymbolMissing == statics[call.fn].checked /\ statics[call.fn].pfn = 0

TimedOut == call.issued /\ call.status = 0

NativeFailed == call.issued /\ call.status # 0 /\ call.status # 1

\* C11 (as stated): a strict wrapper never calls the blocking entry point;
\* after it returns the error kind is none (0) exactly when a usable result (a
\* non-NULL result of a natively successful call) was returned, and otherwise
\* one of disabled (1), missing-symbol (2), timed-out (3), native-reported
\* failure (4), invalid-input (5), a native failure being reported as kind 4.
C11_KindDescribesCall ==
    (Done /\ call.fn \in StrictWrappers) =>
        /\ ~call.syncCalled
        /\ LastKind \in 0..5
        /\ LastKind = 0 <=> (call.ret # 0 /\ call.status = 1)
        /\ LastKind = 4 <=> (call.issued /\ call.status # 0 /\ call.ret = 0)
        /\ NativeFailed => LastKind = 4

\* C11 (amended): the strict pipeline creators behave as stated.  The
\* compilation-info fetch never falls back either, but its kinds are none (0),
\* disabled (1), missing-symbol (2), timed-out (3), allocation-failed (4) and
\* invalid-input (5): its kind is none exactly when it returned a record, which
\* it does whenever the callback ran, a native failure included (the record and
\* the last-status accessor carry the native status); kind 4 means the record
\* could not be allocated, before the native call was issued.
C11_KindDescribesCallPerWrapper ==
    (Done /\ call.fn \in StrictWrappers) =>
        /\ ~call.syncCalled
        /\ LastKind \in 0..5
        /\ LastKind = 5 <=> ~InputValid
        /\ LastKind = 1 <=> (InputValid /\ GateOff)
        /\ LastKind = 2 <=> (InputValid /\ ~GateOff /\ SymbolMissing)
        /\ LastKind = 3 <=> TimedOut
        /\ IF call.fn \in StrictFns
           THEN /\ LastKind = 0 <=> (call.ret # 0 /\ call.status = 1)
                /\ LastKind = 4 <=> (call.issued /\ call.status # 0 /\ call.ret = 0)
                /\ NativeFailed => LastKind = 4
                /\ call.ret # 0 => call.ret = call.payload
           ELSE /\ LastKind = 0 <=> call.ret # 0
                /\ LastKind = 0 <=> (call.issued /\ call.status # 0)
                /\ LastKind = 0 => lastErr.ci_status = call.status
                /\ LastKind = 4 <=> (InputValid /\ ~GateOff /\ ~SymbolMissing /\ ~call.issued)

C11_Witness ==
    /\ Done /\ call.fn = "render_strict" /\ call.issued /\ call.status = 2
    /\ call.ret = 0 /\ lastErr.pipeline_kind = MBT_WGPU_PIPELINE_ASYNC_ERR_FAILED
    /\ lastErr.pipeline_status = 2

----------------------------------------------------------------------------
\* Specification of the feature gate: queries, the programmatic setters, and
\* the host changing the flag variables between queries.

GateFlagVals == {NULLSTR, Str(<<"1">>), Str(<<"0">>)}

FlagVars == {DisableVar(f) : f \in Features} \cup {EnableVar(f) : f \in Features}

\* mbt_wgpu_pipeline_async_enabled() / mbt_wgpu_compilation_info_enabled()
GateQuery(f) ==
    LET ge == GateEnabled(f, platform, env, marker, gate[f])
    IN  /\ gate' = [gate EXCEPT ![f] = ge.g]
        /\ gateQ' = [gateQ EXCEPT
                       !.f = f, !.res = ge.res,
                       !.disable = mbt_wgpu_env_truthy(env, DisableVar(f)),
                       !.enable = mbt_wgpu_env_truthy(env, EnableVar(f)),
                       !.markerOk = mbt_wgpu_marker_allows_current_lib(platform, env, marker, f),
                       !.memo = gate[f]]
        /\ UNCHANGED <<platform, env, fs, pathCall, loaderVars, marker, statics, lastErr,
                       g_device_lost, call, lostQ, msgQ, flagQ, diag, mtVars>>

\* mbt_wgpu_set_pipeline_async_enabled(b) / mbt_wgpu_set_compilation_info_enabled(b)
GateSet(f, b) ==
    /\ gate' = [gate EXCEPT ![f] = [enabled |-> b, inited |-> TRUE]]
    /\ gateQ' = [gateQ EXCEPT !.set[f] = TRUE]
    /\ UNCHANGED <<platform, env, fs, pathCall, loaderVars, marker, statics, lastErr,
                   g_device_lost, call, lostQ, msgQ, flagQ, diag, mtVars>>

\* The host sets or unsets one of the flag variables.
GateSetEnv(v, val) ==
    /\ envChanges < MaxEnvChanges
    /\ env[v] # val
    /\ env' = [env EXCEPT ![v] = val]
    /\ envChanges' = envChanges + 1
    /\ UNCHANGED <<platform, fs, pathCall, g_mbt_wgpu_native_lib, g_mbt_wgpu_native_mu,
                   g_mbt_wgpu_optional_lib, g_mbt_wgpu_optional_once, th, aborted, loads,
                   syncVars, auxVars>>

InitGate ==
    /\ platform = "linux"
    /\ fs = [p \in CandidatePaths |-> LibAt(p)]
    /\ pathCall = [pc |-> "idle", buflen |-> 0, ret |-> NULLSTR]
    /\ LoaderInit
    /\ gate = [f \in Features |-> [enabled |-> FALSE, inited |-> FALSE]]
    /\ statics = [s \in Sites |-> [checked |-> FALSE, pfn |-> 0]]
    /\ lastErr = NoLastErr
    /\ g_device_lost = <<>>
    /\ call = IdleCall
    /\ AuxInit
    /\ \E f \in Features :
          /\ \E o \in LoadOverrideVals, h \in LoadHomeVals, x \in {NULLSTR, Str(HomeH)},
                dis \in GateFlagVals, en \in GateFlagVals :
                env = [v \in EnvVars |->
                         IF v = "MBT_WGPU_NATIVE_LIB" THEN o
                         ELSE IF v = "HOME" THEN h
                         ELSE IF v = "XDG_DATA_HOME" THEN x
                         ELSE IF v = DisableVar(f) THEN dis
                         ELSE IF v = EnableVar(f) THEN en
                         ELSE NULLSTR]
          /\ \E m \in {NULLSTR, Str(PathA), Str(PathD)} :
                marker = [g \in Features |-> IF g = f THEN m ELSE NULLSTR]

NextGate ==
    \/ \E f \in Features : GateQuery(f)
    \/ \E f \in Features, b \in BOOLEAN : GateSet(f, b)
    \/ \E v \in FlagVars, val \in GateFlagVals : GateSetEnv(v, val)

SpecGate == InitGate /\ [][NextGate]_vars

----------------------------------------------------------------------------
\* Properties of the feature gate.

Queried == gateQ.f # "none"

\* C12: a gate query made while the feature's disable variable is truthy
\* answers "disabled", whatever the enable variable, the marker file, the
\* memoized decision or a programmatic setter say.
C12_DisableWins ==
    (Queried /\ gateQ.disable) => ~gateQ.res

C12_Witness ==
    /\ Queried /\ gateQ.disable /\ gateQ.enable /\ gateQ.markerOk
    /\ gateQ.memo.inited /\ gateQ.memo.enabled /\ gateQ.set[gateQ.f]
    /\ ~gateQ.res

\* a marker file for f exists and the lib_path it records is, character for
\* character, the path the process resolves now
MarkerRecordsCurrentPath(f) ==
    LET cur == mbt_wgpu_native_resolve_lib_path(platform, env, MarkerBufLen)
    IN  /\ NonEmpty(env["XDG_DATA_HOME"]) \/ NonEmpty(env["HOME"])
        /\ ~marker[f].isnull
        /\ ~cur.isnull
        /\ Len(cur.s) > 0
        /\ marker[f].s = cur.s

\* C13: with the disable variable not truthy and no decision stored yet (no
\* earlier query, no setter call), the query answers "enabled" if the enable
\* variable is truthy, and otherwise exactly if the marker file records the
\* currently resolved library path; the stored decision is that answer.
C13_FirstEvaluation ==
    (Queried /\ ~gateQ.disable /\ ~gateQ.memo.inited) =>
        /\ gateQ.enable => gateQ.res
        /\ ~gateQ.enable => (gateQ.res <=> MarkerRecordsCurrentPath(gateQ.f))
        /\ ~gateQ.set[gateQ.f] => gate[gateQ.f].inited

C13_Witness ==
    /\ Queried /\ ~gateQ.disable /\ ~gateQ.memo.inited /\ ~gateQ.enable
    /\ gateQ.res /\ MarkerRecordsCurrentPath(gateQ.f)
    /\ env["MBT_WGPU_NATIVE_LIB"].isnull

----------------------------------------------------------------------------
\* Specification of the device-lost registry: callbacks, explicit destruction,
\* take and the bounded wait, on registries of every fill level.

WGPUDeviceLostReason_Destroyed == 2

\* number of registry operations followed
MaxLostOps == 3

\* device handles the operations are made on: one tracked from the first
\* entry on, one tracked only in a full registry, two never tracked at first
ProbeDevices == {1, DeviceLostCap, DeviceLostCap + 1, DeviceLostCap + 2}

\* the registry after loss events for devices 1..k, none taken yet
Filled(k) == [j \in 1..k |-> [device |-> j, reason |-> 1 + (j % 2)]]

LogOp(op, d, reason, ret) ==
    Append(lostQ, [op |-> op, device |-> d, reason |-> reason, ret |-> ret,
                   before |-> g_device_lost])

\* mbt_device_lost_cb(&d, reason, ...), run by the native library
DeviceLostCb(d, reason) ==
    /\ Len(lostQ) < MaxLostOps
    /\ g_device_lost' = mbt_device_lost_upsert(g_device_lost, d, reason)
    /\ lostQ' = LogOp("cb", d, reason, 0)
    /\ UNCHANGED <<platform, env, fs, pathCall, loaderVars, marker, gate, statics, lastErr,
                   call, gateQ, msgQ, flagQ, diag, mtVars>>

\* mbt_wgpu_device_destroy_record_lost(d)
DestroyRecordLost(d) ==
    /\ Len(lostQ) < MaxLostOps
    /\ g_device_lost' = mbt_device_lost_upsert(g_device_lost, d, WGPUDeviceLostReason_Destroyed)
    /\ lostQ' = LogOp("destroy", d, WGPUDeviceLostReason_Destroyed, 0)
    /\ UNCHANGED <<platform, env, fs, pathCall, loaderVars, marker, gate, statics, lastErr,
                   call, gateQ, msgQ, flagQ, diag, mtVars>>

\* mbt_wgpu_device_take_lost_reason_u32(d)
TakeLostReason(d) ==
    /\ Len(lostQ) < MaxLostOps
    /\ LET tk == mbt_wgpu_device_take_lost_reason_u32(g_device_lost, d)
       IN  /\ g_device_lost' = tk.reg
           /\ lostQ' = LogOp("take", d, 0, tk.reason)
    /\ UNCHANGED <<platform, env, fs, pathCall, loaderVars, marker, gate, statics, lastErr,
                   call, gateQ, msgQ, flagQ, diag, mtVars>>

\* mbt_wgpu_device_wait_lost_reason_sync_u32(instance, d) while the native
\* library fires no callback: the first iteration takes the reason if there is
\* one; otherwise every one of the max_iters iterations finds none.
WaitLostReasonQuiet(d) ==
    /\ Len(lostQ) < MaxLostOps
    /\ LET tk == mbt_wgpu_device_take_lost_reason_u32(g_device_lost, d)
       IN  /\ g_device_lost' = tk.reg
           /\ lostQ' = LogOp("wait", d, 0, tk.reason)
    /\ UNCHANGED <<platform, env, fs, pathCall, loaderVars, marker, gate, statics, lastErr,
                   call, gateQ, msgQ, flagQ, diag, mtVars>>

InitLost ==
    /\ platform = "linux"
    /\ env = [v \in EnvVars |-> NULLSTR]
    /\ fs = [p \in CandidatePaths |-> LibAt(p)]
    /\ pathCall = [pc |-> "idle", buflen |-> 0, ret |-> NULLSTR]
    /\ LoaderInit
    /\ marker = [f \in Features |-> NULLSTR]
    /\ gate = [f \in Features |-> [enabled |-> FALSE, inited |-> FALSE]]
    /\ statics = [s \in Sites |-> [checked |-> FALSE, pfn |-> 0]]
    /\ lastErr = NoLastErr
    /\ call = IdleCall
    /\ AuxInit
    /\ \E k \in 0..DeviceLostCap : g_device_lost = Filled(k)

NextLost ==
    \/ \E d \in ProbeDevices, r \in LostReasons : DeviceLostCb(d, r)
    \/ \E d \in ProbeDevices : DestroyRecordLost(d)
    \/ \E d \in ProbeDevices : TakeLostReason(d)
    \/ \E d \in ProbeDevices : WaitLostReasonQuiet(d)

SpecLost == InitLost /\ [][NextLost]_vars

----------------------------------------------------------------------------
\* Properties of the device-lost registry.

\* the registry when operation i had finished
After(i) == IF i < Len(lostQ) THEN lostQ[i + 1].before ELSE g_device_lost

IsUpsert(i) == lostQ[i].op \in {"cb", "destroy"}

IsRead(i) == lostQ[i].op \in {"take", "wait"}

Tracked(reg, d) == \E k \in 1..Len(reg) : reg[k].device = d

Full(reg) == Len(reg) = 16

DistinctDevices(reg) ==
    \A j, k \in 1..Len(reg) : reg[j].device = reg[k].device => j = k

\* C14: an upsert (from the device-lost callback or from explicit destruction)
\* leaves a registry of at most 16 entries with distinct devices; if the
\* device is not tracked and the registry is full the registry is unchanged;
\* every entry of another device stays where it was with its reason, and a
\* take of that device returns that reason.
C14_OverflowDropped ==
    \A i \in 1..Len(lostQ) :
        IsUpsert(i) =>
            LET b == lostQ[i].before
                a == After(i)
                d == lostQ[i].device
            IN  /\ Len(a) <= 16
                /\ DistinctDevices(a)
                /\ (Full(b) /\ ~Tracked(b, d)) => a = b
                /\ \A k \in 1..Len(b) :
                      b[k].device # d =>
                          /\ a[k] = b[k]
                          /\ mbt_wgpu_device_take_lost_reason_u32(a, b[k].device).reason
                                = b[k].reason

\* two more devices than the capacity were reported lost, and the sixteen
\* entries are as they were
C14_Witness ==
    /\ Len(lostQ) >= 2
    /\ \A i \in 1..2 : IsUpsert(i) /\ Full(lostQ[i].before)
                          /\ ~Tracked(lostQ[i].before, lostQ[i].device)
    /\ lostQ[1].device # lostQ[2].device
    /\ g_device_lost = Filled(16)

\* C15: after mbt_wgpu_device_destroy_record_lost(d) on a device the registry
\* tracks (it has an entry for d, or room for one), with no callback in
\* between, the next take of d returns the destroyed reason and a second take
\* right after it returns 0.
C15_DestroyedTakenOnce ==
    \A i \in 1..Len(lostQ) :
        (/\ lostQ[i].op = "destroy"
         /\ Tracked(lostQ[i].before, lostQ[i].device) \/ ~Full(lostQ[i].before)
         /\ i + 1 <= Len(lostQ)
         /\ lostQ[i + 1].op = "take"
         /\ lostQ[i + 1].device = lostQ[i].device)
        => /\ lostQ[i + 1].ret = 2
           /\ (/\ i + 2 <= Len(lostQ)
               /\ lostQ[i + 2].op = "take"
               /\ lostQ[i + 2].device = lostQ[i].device) => lostQ[i + 2].ret = 0

C15_Witness ==
    /\ Len(lostQ) = 3
    /\ lostQ[1].op = "destroy" /\ lostQ[2].op = "take" /\ lostQ[3].op = "take"
    /\ lostQ[1].device = 1 /\ lostQ[2].device = 1 /\ lostQ[3].device = 1
    /\ lostQ[1].before = Filled(16)
    /\ lostQ[2].ret = WGPUDeviceLostReason_Destroyed /\ lostQ[3].ret = 0

\* C16: whatever the registry holds, once mbt_wgpu_device_destroy_record_lost(d)
\* has returned the registry has a reason for d, and a take or bounded wait for
\* d that follows it returns a non-zero reason.
C16_DestroyAlwaysObservable ==
    \A i \in 1..Len(lostQ) :
        lostQ[i].op = "destroy" =>
            /\ Tracked(After(i), lostQ[i].device)
            /\ (/\ i + 1 <= Len(lostQ)
                /\ IsRead(i + 1)
                /\ lostQ[i + 1].device = lostQ[i].device) => lostQ[i + 1].ret # 0

----------------------------------------------------------------------------
\* Length-query / data-fetch helper pairs.

\* char message[2048] of the request results; g_mbt_wgpu_last_*_message[2048]
MessageCap == 2048

\* char buf[4096] of the diagnostic entry points
DiagBufLen == 4096

\* mbt_wgpu_appendf(buf, buflen, n, fmt, ...) with a non-NULL buf, w being
\* the length of the formatted text: the new length of the text in buf.
mbt_wgpu_appendf(buflen, n, w) ==
    IF buflen = 0 \/ n >= buflen THEN n
    ELSE IF w <= 0 THEN n
    ELSE IF w >= buflen - n THEN buflen - 1
    ELSE n + w

\* mbt_wgpu_native_diagnostic_impl (POSIX): the length of the trace it writes.
\* errLen is the length of the text dlerror() returns after a failure (0: none).
mbt_wgpu_native_diagnostic_impl(p, e, f, out_len, errLen) ==
    LET override == e["MBT_WGPU_NATIVE_LIB"]
        n1 == mbt_wgpu_appendf(out_len, 0,
                  20 + (IF NonEmpty(override) THEN Len(override.s) ELSE 7) + 1)
        path == mbt_wgpu_native_resolve_lib_path(p, e, FallbackBufLen)
        n2 == mbt_wgpu_appendf(out_len, n1,
                  14 + (IF NonEmpty(path) THEN Len(path.s) ELSE 6) + 1)
        lib == Dlopen(f, path.s)
        dlerr(n) == IF errLen > 0 THEN mbt_wgpu_appendf(out_len, n, 8 + errLen + 1) ELSE n
    IN  IF ~NonEmpty(path) THEN mbt_wgpu_appendf(out_len, n2, 41)
        ELSE IF lib = NoLib THEN dlerr(mbt_wgpu_appendf(out_len, n2, 14))
        ELSE IF Dlsym(lib, "wgpuCreateInstance") # 0
        THEN mbt_wgpu_appendf(out_len, mbt_wgpu_appendf(out_len, n2, 29), 17)
        ELSE mbt_wgpu_appendf(out_len, dlerr(mbt_wgpu_appendf(out_len, n2, 33)), 36)

\* mbt_wgpu_native_diagnostic_impl (POSIX): the lines it appends, in order, each
\* named by the fixed text it starts with.
mbt_wgpu_native_diagnostic_lines(p, e, f, errLen) ==
    LET path == mbt_wgpu_native_resolve_lib_path(p, e, FallbackBufLen)
        lib == Dlopen(f, path.s)
        dlerr == IF errLen > 0 THEN <<"dlerror=">> ELSE <<>>
        head == <<"MBT_WGPU_NATIVE_LIB=", "resolved_path=">>
    IN  IF ~NonEmpty(path) THEN head \o <<"status=unavailable">>
        ELSE IF lib = NoLib THEN head \o <<"dlopen failed">> \o dlerr
        ELSE IF Dlsym(lib, "wgpuCreateInstance") # 0
        THEN head \o <<"dlsym(wgpuCreateInstance)=ok", "status=available">>
        ELSE head \o <<"dlsym(wgpuCreateInstance)=failed">> \o dlerr
                  \o <<"status=unavailable">>

MessageHelpers == {"request_adapter_message", "request_device_message", "diagnostic",
                   "compilation_message", "adapter_info"}

\* the length of the message helper h reports and copies
MessageLength(h) ==
    IF h = "diagnostic"
    THEN mbt_wgpu_native_diagnostic_impl(platform, env, fs, DiagBufLen, msgQ.err)
    ELSE msgQ.len

\* variant: the copy is made whatever the size of the caller's buffer
MessageFetch_NoCheck(h, len, out, out_len) ==
    IF ~out THEN [ret |-> FALSE, written |-> 0] ELSE [ret |-> TRUE, written |-> len]

\* The data-fetch helper of h called with (out, out_len) on a message of
\* length len (valid handle and index): its result and the bytes it writes.
\*   mbt_wgpu_instance_request_adapter_sync_last_message_utf8,
\*   mbt_wgpu_adapter_request_device_sync_last_message_utf8,
\*   mbt_wgpu_native_diagnostic_utf8,
\*   mbt_wgpu_compilation_info_message_utf8, mbt_wgpu_adapter_info_*_utf8
MessageFetch(h, len, out, out_len) ==
    IF h \in {"request_adapter_message", "request_device_message"}
    THEN IF ~out \/ out_len = 0 THEN [ret |-> FALSE, written |-> 0]
         ELSE IF out_len < len THEN [ret |-> FALSE, written |-> 0]
         ELSE IF len = 0 THEN [ret |-> TRUE, written |-> 0]
         ELSE [ret |-> TRUE, written |-> len]
    ELSE IF h = "diagnostic"
    THEN IF ~out \/ out_len = 0 THEN [ret |-> FALSE, written |-> 0]
         ELSE IF out_len < len THEN [ret |-> FALSE, written |-> 0]
         ELSE [ret |-> TRUE, written |-> len]
    ELSE IF ~out THEN [ret |-> FALSE, written |-> 0]
         ELSE IF len > out_len THEN [ret |-> FALSE, written |-> 0]
         ELSE [ret |-> TRUE, written |-> len]

\* mbt_wgpu_*_utf8_len()
MsgLenQuery ==
    /\ msgQ.helper # "none"
    /\ msgQ' = [msgQ EXCEPT !.op = "len", !.asked = TRUE, !.n = MessageLength(msgQ.helper)]
    /\ UNCHANGED <<platform, env, fs, pathCall, loaderVars, syncVars, gateQ, lostQ, flagQ, diag, mtVars>>

\* mbt_wgpu_*_utf8(out, out_len)
MsgFetch(out, out_len) ==
    /\ msgQ.helper # "none"
    /\ LET r == MessageFetch(msgQ.helper, MessageLength(msgQ.helper), out, out_len)
       IN  msgQ' = [msgQ EXCEPT !.op = "fetch", !.out = out, !.out_len = out_len,
                                !.ret = r.ret, !.written = r.written]
    /\ UNCHANGED <<platform, env, fs, pathCall, loaderVars, syncVars, gateQ, lostQ, flagQ, diag, mtVars>>

\* mbt_request_adapter_cb / mbt_request_device_cb on a message of the given
\* length: the bytes copied into out->message[2048] and out->message_len.
MessageRecord(data, length) ==
    IF data /\ length # 0
    THEN LET n == IF length > MessageCap - 1 THEN MessageCap - 1 ELSE length
         IN  [copied |-> n, message_len |-> n]
    ELSE [copied |-> 0, message_len |-> 0]

\* lengths of the status messages the native library delivers
NativeLens == {0, 1, MessageCap - 1, MessageCap, MessageCap + 1}

\* A request-adapter / request-device call completes: the callback fills the
\* record and the adapter stores the record's message and message_len in the
\* thread-local last message.
MsgDeliver(data, length) ==
    /\ msgQ.helper \in {"request_adapter_message", "request_device_message"}
    /\ LET r == MessageRecord(data, length)
       IN  msgQ' = [msgQ EXCEPT !.op = "deliver", !.asked = FALSE, !.data = data,
                                !.native = length, !.copied = r.copied,
                                !.len = r.message_len]
    /\ UNCHANGED <<platform, env, fs, pathCall, loaderVars, syncVars, gateQ, lostQ, flagQ, diag, mtVars>>

\* lengths a stored message can have (the callbacks keep at most MessageCap - 1)
MsgLens == {0, 1, 2, MessageCap - 1}

\* buffer sizes a caller tries for a message of length m
OutLens(m) == {k \in {0, 1, m - 1, m, m + 1} : k >= 0}

\* an override too long for the diagnostic buffer
LongOverride == Rep("x", DiagBufLen)

\* a library without the probe symbol wgpuCreateInstance
BareLib == 3

InitMsg ==
    /\ platform = "linux"
    /\ pathCall = [pc |-> "idle", buflen |-> 0, ret |-> NULLSTR]
    /\ LoaderInit
    /\ SyncInit
    /\ gateQ = NoGateQ
    /\ lostQ = NoLostQ
    /\ flagQ = NoFlagQ
    /\ diag = NoDiag
    /\ MtInit
    /\ \E h \in MessageHelpers :
          IF h = "diagnostic"
          THEN /\ \E o \in LoadOverrideVals \cup {Str(LongOverride)}, hm \in LoadHomeVals :
                     env = [v \in EnvVars |->
                              IF v = "MBT_WGPU_NATIVE_LIB" THEN o
                              ELSE IF v = "HOME" THEN hm ELSE NULLSTR]
               /\ fs \in [CandidatePaths -> {NoLib, 1, BareLib}]
               /\ \E el \in {0, 5} : msgQ = [NoMsgQ EXCEPT !.helper = h, !.err = el]
          ELSE /\ env = [v \in EnvVars |-> NULLSTR]
               /\ fs = [p \in CandidatePaths |-> LibAt(p)]
               /\ \E m \in MsgLens : msgQ = [NoMsgQ EXCEPT !.helper = h, !.len = m]

NextMsg ==
    \/ MsgLenQuery
    \/ \E out \in BOOLEAN, out_len \in OutLens(MessageLength(msgQ.helper)) : MsgFetch(out, out_len)
    \/ \E data \in BOOLEAN, length \in NativeLens : MsgDeliver(data, length)

SpecMsg == InitMsg /\ [][NextMsg]_vars

\* C17: for every helper pair, a length query followed by a fetch into a
\* buffer of exactly the reported length succeeds, for every length, zero
\* included.
C17_FetchExactLengthSucceeds ==
    (msgQ.op = "fetch" /\ msgQ.asked /\ msgQ.out /\ msgQ.out_len = msgQ.n) => msgQ.ret

\* C18: a fetch never writes more than out_len bytes into the caller's buffer,
\* and when out_len is smaller than the message it returns false and writes
\* nothing.
C18_NoWriteBeyondOutLen ==
    msgQ.op = "fetch" =>
        /\ msgQ.written <= msgQ.out_len
        /\ msgQ.out_len < MessageLength(msgQ.helper) => (~msgQ.ret /\ msgQ.written = 0)
        /\ ~msgQ.ret => msgQ.written = 0

C18_Witness ==
    /\ msgQ.op = "fetch" /\ msgQ.helper = "diagnostic" /\ msgQ.out
    /\ msgQ.out_len > 0 /\ msgQ.out_len = MessageLength("diagnostic") - 1
    /\ ~msgQ.ret /\ msgQ.written = 0

----------------------------------------------------------------------------
\* Boolean environment flags.

FlagHelpers == {"mbt_wgpu_env_truthy", "mbt_wgpu_env_flag_enabled",
                "mbt_wgpu_debug_labels_enabled"}

\* mbt_wgpu_env_flag_enabled(name), v being getenv(name)
mbt_wgpu_env_flag_enabled(v) == ~v.isnull /\ v.s \in TruthySpellings

\* what mbt_wgpu_debug_labels_enabled computes from getenv("MBT_WGPU_DEBUG_LABELS")
\* when nothing is memoized: v && v[0] && v[0] != '0'
DebugLabelsFromEnv(v) == ~v.isnull /\ Len(v.s) > 0 /\ v.s[1] # "0"

FlagTexts ==
    {<<>>, <<"1">>, <<"0">>, <<"2">>, <<"1","1">>, <<"0","1">>, <<"1"," ">>,
     <<"t","r","u","e">>, <<"T","R","U","E">>, <<"T","r","u","e">>, <<"t">>,
     <<"y","e","s">>, <<"Y","E","S">>, <<"Y","e","s">>, <<"y">>,
     <<"o","n">>, <<"O","N">>, <<"O","n">>, <<"o","n","e">>,
     <<"n","o">>, <<"o","f","f">>, <<"f","a","l","s","e">>}

FlagValues == {NULLSTR} \cup {Str(t) : t \in FlagTexts}

\* One read of a flag through its helper.
ReadFlag ==
    /\ flagQ.helper # "none"
    /\ ~flagQ.done
    /\ LET h == flagQ.helper
           v == flagQ.v
       IN  IF h = "mbt_wgpu_env_truthy"
           THEN flagQ' = [flagQ EXCEPT !.done = TRUE, !.ret = mbt_wgpu_env_truthy([n \in {"FLAG"} |-> v], "FLAG")]
           ELSE IF h = "mbt_wgpu_env_flag_enabled"
           THEN flagQ' = [flagQ EXCEPT !.done = TRUE, !.ret = mbt_wgpu_env_flag_enabled(v)]
           ELSE LET en == IF flagQ.labels.inited THEN flagQ.labels.enabled
                          ELSE DebugLabelsFromEnv(v)
                IN  flagQ' = [flagQ EXCEPT !.done = TRUE, !.ret = en,
                                           !.labels = [enabled |-> en, inited |-> TRUE]]
    /\ UNCHANGED <<platform, env, fs, pathCall, loaderVars, syncVars, gateQ, lostQ, msgQ, diag, mtVars>>

InitFlag ==
    /\ platform = "linux"
    /\ env = [v \in EnvVars |-> NULLSTR]
    /\ fs = [p \in CandidatePaths |-> LibAt(p)]
    /\ pathCall = [pc |-> "idle", buflen |-> 0, ret |-> NULLSTR]
    /\ LoaderInit
    /\ SyncInit
    /\ gateQ = NoGateQ
    /\ lostQ = NoLostQ
    /\ msgQ = NoMsgQ
    /\ diag = NoDiag
    /\ MtInit
    /\ \E h \in FlagHelpers, v \in FlagValues : flagQ = [NoFlagQ EXCEPT !.helper = h, !.v = v]

NextFlag == ReadFlag

SpecFlag == InitFlag /\ [][NextFlag]_vars

\* C19: every boolean flag variable the shim reads (feature enable/disable
\* variables, debug toggles, MBT_WGPU_DEBUG_LABELS) is true exactly when its
\* value is one of 1, true, TRUE, yes, YES, on, ON, and false for any other
\* value and when unset.
C19_TruthySpellingsOnly ==
    flagQ.done =>
        (flagQ.ret <=> (~flagQ.v.isnull /\ flagQ.v.s \in
                           {<<"1">>, <<"t","r","u","e">>, <<"T","R","U","E">>, <<"y","e","s">>,
                            <<"Y","E","S">>, <<"o","n">>, <<"O","N">>}))

----------------------------------------------------------------------------
\* The diagnostic entry points beside the loader (wgpu_dynload.c).  One thread
\* calls the loader while another calls mbt_wgpu_native_diagnostic_utf8_len /
\* mbt_wgpu_native_diagnostic_utf8; the steps interleave.

DiagOps == {"diagnostic_utf8_len", "diagnostic_utf8"}
DiagOutLens == {0, 1, DiagBufLen}
\* lengths of the text dlerror() may return after a failure (0: none)
DlerrorLens == {0, 5}
LoaderThread == 1
DiagLoaderOps == {"open_required", "open_optional", "sym_required", "sym_optional",
                  "available"}

\* what the entry point returns for a trace of length n
DiagResult(op, out_len, n) ==
    IF op = "diagnostic_utf8_len" THEN n
    ELSE IF out_len < n THEN 0 ELSE 1

\* Entry: mbt_wgpu_native_diagnostic_utf8 returns false at once for a NULL or
\* empty buffer; otherwise mbt_wgpu_native_diagnostic_impl starts on buf[4096].
DiagCall(op, out, out_len) ==
    /\ Running
    /\ diag.pc \in {"idle", "ret"}
    /\ diag' = [NoDiag EXCEPT
                  !.op = op, !.out = out, !.out_len = out_len, !.refs = diag.refs,
                  !.pc = IF op = "diagnostic_utf8" /\ (~out \/ out_len = 0)
                         THEN "ret" ELSE "resolve"]
    /\ UNCHANGED <<platform, env, fs, pathCall, loaderVars, syncVars,
                   gateQ, lostQ, msgQ, flagQ, mtVars>>

\* mbt_wgpu_native_diagnostic_impl up to its dlopen: getenv, resolve the path
\* into path_buf[1024], dlopen it.  Without a path or a library it returns.
DiagOpen(errLen) ==
    /\ Running
    /\ diag.pc = "resolve"
    /\ LET path == mbt_wgpu_native_resolve_lib_path(platform, env, FallbackBufLen)
           lib == IF NonEmpty(path) THEN Dlopen(fs, path.s) ELSE NoLib
           n == mbt_wgpu_native_diagnostic_impl(platform, env, fs, DiagBufLen, errLen)
       IN  diag' = IF lib = NoLib
                   THEN [diag EXCEPT !.pc = "ret", !.n = n,
                                     !.lines = mbt_wgpu_native_diagnostic_lines(
                                                   platform, env, fs, errLen),
                                     !.ret = DiagResult(diag.op, diag.out_len, n)]
                   ELSE [diag EXCEPT !.pc = "opened", !.lib = lib, !.refs[lib] = @ + 1]
    /\ UNCHANGED <<platform, env, fs, pathCall, loaderVars, syncVars,
                   gateQ, lostQ, msgQ, flagQ, mtVars>>

\* variant: the diagnostic closes the library for the whole process, the
\* cached handle of the loader included
DiagClose_ClosesCached(errLen) ==
    /\ Running
    /\ diag.pc = "opened"
    /\ LET n == mbt_wgpu_native_diagnostic_impl(platform, env, fs, DiagBufLen, errLen)
       IN  diag' = [diag EXCEPT !.pc = "ret", !.n = n, !.refs[diag.lib] = @ - 1,
                                !.lines = mbt_wgpu_native_diagnostic_lines(
                                              platform, env, fs, errLen),
                                !.ret = DiagResult(diag.op, diag.out_len, n)]
    /\ g_mbt_wgpu_native_lib' = IF g_mbt_wgpu_native_lib = diag.lib THEN NoLib
                                ELSE g_mbt_wgpu_native_lib
    /\ UNCHANGED <<platform, env, fs, pathCall, g_mbt_wgpu_native_mu,
                   g_mbt_wgpu_optional_lib, g_mbt_wgpu_optional_once, th, aborted, loads,
                   envChanges, syncVars, gateQ, lostQ, msgQ, flagQ, mtVars>>

\* mbt_wgpu_native_diagnostic_impl after its dlopen: dlsym of the probe symbol
\* on its own handle, dlclose of that handle, return; then the length check
\* and memcpy of mbt_wgpu_native_diagnostic_utf8.
DiagClose(errLen) ==
    /\ Running
    /\ diag.pc = "opened"
    /\ LET n == mbt_wgpu_native_diagnostic_impl(platform, env, fs, DiagBufLen, errLen)
       IN  diag' = [diag EXCEPT !.pc = "ret", !.n = n, !.refs[diag.lib] = @ - 1,
                                !.lines = mbt_wgpu_native_diagnostic_lines(
                                              platform, env, fs, errLen),
                                !.ret = DiagResult(diag.op, diag.out_len, n)]
    /\ UNCHANGED <<platform, env, fs, pathCall, loaderVars, syncVars,
                   gateQ, lostQ, msgQ, flagQ, mtVars>>

InitDiag ==
    /\ platform = "linux"
    /\ \E o \in LoadOverrideVals, h \in LoadHomeVals :
          env = [v \in EnvVars |-> IF v = "MBT_WGPU_NATIVE_LIB" THEN o
                                   ELSE IF v = "HOME" THEN h ELSE NULLSTR]
    /\ fs \in {f \in [CandidatePaths -> {NoLib, 1, 2, BareLib}] :
                  \A p \in CandidatePaths : f[p] \in {NoLib, LibAt(p), BareLib}}
    /\ pathCall = [pc |-> "idle", buflen |-> 0, ret |-> NULLSTR]
    /\ LoaderInit
    /\ SyncInit
    /\ AuxInit

NextDiag ==
    \/ \E op \in DiagLoaderOps, n \in CallNames : Call(LoaderThread, op, n)
    \/ OpenLock(LoaderThread)
    \/ OpenLoad(LoaderThread)
    \/ OpenStore(LoaderThread)
    \/ Return(LoaderThread)
    \/ Die(LoaderThread)
    \/ \E op \in DiagOps, out \in BOOLEAN, out_len \in DiagOutLens : DiagCall(op, out, out_len)
    \/ \E errLen \in DlerrorLens : DiagOpen(errLen)
    \/ \E errLen \in DlerrorLens : DiagClose(errLen)

SpecDiag == InitDiag /\ [][NextDiag]_vars

----------------------------------------------------------------------------
\* Properties of the diagnostic (checked under SpecDiag).

DiagStep == diag' # diag
DiagInProgress == diag.pc \in {"resolve", "opened"}

\* C20: a diagnostic call is a pure observation.  Every step of it leaves the
\* cached library handle, the loader's mutex and call frames, the abort
\* record, the environment and the file system as they were; the only library
\* reference it ever holds or drops is the one its own dlopen returned; and
\* while the process runs, a diagnostic call under way can always take its
\* next step, so it returns whatever the environment is.
C20_DiagnosticObservesOnly ==
    /\ [][DiagStep =>
            /\ g_mbt_wgpu_native_lib' = g_mbt_wgpu_native_lib
            /\ g_mbt_wgpu_native_mu' = g_mbt_wgpu_native_mu
            /\ g_mbt_wgpu_optional_lib' = g_mbt_wgpu_optional_lib
            /\ aborted' = aborted
            /\ th' = th
            /\ env' = env
            /\ fs' = fs]_vars
    /\ [](\A l \in 1..3 :
             diag.refs[l] = IF diag.pc = "opened" /\ diag.lib = l THEN 1 ELSE 0)
    /\ []((Running /\ DiagInProgress) =>
             ENABLED ((\E e \in DlerrorLens : DiagOpen(e)) \/ (\E e \in DlerrorLens : DiagClose(e))))
    /\ [](aborted.by \notin DiagOps)

\* the loader has cached a library without the probe symbol, and a diagnostic
\* call that opened and closed the same library has returned
C20_Witness ==
    /\ diag.pc = "ret" /\ diag.op = "diagnostic_utf8" /\ diag.ret = 1
    /\ diag.lib = BareLib
    /\ g_mbt_wgpu_native_lib = BareLib
    /\ diag.refs[BareLib] = 0

\* the diagnostic call has returned after running mbt_wgpu_native_diagnostic_impl
DiagReported ==
    /\ diag.pc = "ret"
    /\ diag.op = "diagnostic_utf8" => (diag.out /\ diag.out_len > 0)

StatusLines == {"status=available", "status=unavailable"}

\* C21: every diagnostic report starts with the override line and the
\* resolved-path line and contains a status line (status=available or
\* status=unavailable), whatever the outcome of the load.
C21_StatusLineAlways ==
    DiagReported =>
        /\ Len(diag.lines) >= 3
        /\ diag.lines[1] = "MBT_WGPU_NATIVE_LIB="
        /\ diag.lines[2] = "resolved_path="
        /\ \E i \in 1..Len(diag.lines) : diag.lines[i] \in StatusLines

\* C22: no native callback writes to a result record after the adapter call
\* that registered it has returned.
C22_NoWriteAfterReturn ==
    Done => ~call.lateWrite

\* a thread is inside mbt_wgpu_native_open_impl at its call of dlopen
AtDlopen(t) == th[t].pc = "load"

\* C23: no shim lock is held across a call into native or OS code that may
\* block or re-enter the shim; for the library-handle mutex: a thread that is
\* at its call of dlopen does not hold g_mbt_wgpu_native_mu.  (The registry
\* mutexes are taken and released inside mbt_device_lost_upsert and
\* mbt_wgpu_device_take_lost_reason_u32, each a single step here.)
C23_NoLockAcrossNativeCall ==
    \A t \in Threads : AtDlopen(t) => g_mbt_wgpu_native_mu # t

\* the library can be opened in the current environment
Loadable == LoadNow # NoLib

\* thread t, in an optional open or lookup, takes the step that needs the
\* library: the dlopen of the loader when no handle is cached, or the body of
\* mbt_wgpu_optional_sym
OpenAttempt(t) ==
    /\ th[t].op \in OptionalOps
    /\ th[t].pc \in {"load", "once"}
    /\ th'[t].pc # th[t].pc

\* C24: a failed open is not cached.  Whatever failed before, an optional open
\* or optional symbol lookup made while the library can be loaded from the
\* current environment obtains a library handle.
C24_FailedOpenNotCached ==
    [][\A t \in Threads : (OpenAttempt(t) /\ Loadable) => th'[t].lib # NoLib]_vars

\* C25: the optional symbol probe and the shared loader stay consistent: when
\* mbt_wgpu_optional_sym and mbt_wgpu_native_sym_optional / _required have both
\* returned for the same symbol name, they used the same library (handles
\* name the file they were opened from) and both report the symbol present or
\* both report it absent.
C25_ProbeAndLoaderAgree ==
    \A t1, t2 \in Threads :
       (/\ Returned(t1, "optional_sym")
        /\ th[t2].op \in {"sym_optional", "sym_required"} /\ th[t2].pc = "ret"
        /\ th[t2].name = th[t1].name /\ ~NameEmpty(th[t1].name)) =>
          /\ th[t1].lib = th[t2].lib
          /\ (th[t1].ret = 0) <=> (th[t2].ret = 0)

----------------------------------------------------------------------------
\* Memoization of the feature gate (checked under SpecGate).

\* C26 (as stated): once a decision is stored for a feature (by the first
\* evaluation or by a setter), every later query returns the stored decision,
\* whatever the disable variable, the enable variable or the marker say.
C26_MemoizedDecision ==
    (Queried /\ gateQ.memo.inited) => (gateQ.res = gateQ.memo.enabled)

\* C26 (amended): the enable decision (enable variable or marker) is evaluated
\* once and stored; a setter replaces the stored decision.  A later query
\* returns the stored decision unless the disable variable is truthy at that
\* query, in which case it returns "disabled" and leaves the stored decision
\* alone; changes to the enable variable or the marker have no effect, and
\* neither a query nor a change of the environment alters a stored decision.
C26_MemoizedUnlessDisabled ==
    /\ []((Queried /\ gateQ.memo.inited) =>
             (gateQ.res = (gateQ.memo.enabled /\ ~gateQ.disable)))
    /\ [][\A f \in Features :
             (gate[f].inited /\ (env' # env \/ (gateQ' # gateQ /\ gateQ'.set = gateQ.set)))
                => gate'[f] = gate[f]]_vars

\* the decision "enabled" was stored from the enable variable, the variable
\* was then unset, and with no marker and no setter call the next query still
\* answers "enabled"
C26_Witness ==
    /\ Queried /\ gateQ.memo.inited /\ gateQ.memo.enabled
    /\ ~gateQ.disable /\ ~gateQ.enable /\ ~gateQ.markerOk
    /\ ~gateQ.set[gateQ.f]
    /\ gateQ.res

----------------------------------------------------------------------------
\* The device-lost registry used from several threads
\* (wgpu_stub_helpers_sync.c).  mbt_device_lost_upsert and
\* mbt_wgpu_device_take_lost_reason_u32 are taken apart into their steps: lock
\* g_device_lost_mu, scan for the device, write, unlock.

LostMtOps == {"cb", "destroy", "take", "wait"}
LostMtDevices == {16, 17}
LostMtFills == {0, 15, 16}

InLostCall(t) == sth[t].pc \notin {"idle", "done"}

\* Entry of mbt_device_lost_cb (run by the native library on any thread),
\* mbt_wgpu_device_destroy_record_lost, mbt_wgpu_device_take_lost_reason_u32
\* and mbt_wgpu_device_wait_lost_reason_sync_u32.
LostCall(t, op, d, r) ==
    /\ ~InLostCall(t)
    /\ sth' = [sth EXCEPT ![t] =
                 [IdleLostFrame EXCEPT
                    !.pc = "lock", !.op = op, !.device = d,
                    !.reason = IF op = "cb" THEN r
                               ELSE IF op = "destroy" THEN WGPUDeviceLostReason_Destroyed
                               ELSE 0,
                    !.overlap = \E u \in Threads \ {t} : InLostCall(u)]]
    /\ UNCHANGED <<platform, env, fs, pathCall, loaderVars, syncVars, gateQ, lostQ, msgQ,
                   flagQ, diag, g_device_lost_mu, g_wait_any_entries, g_wait_any_next_id,
                   waitQ>>

\* variant: the registry is scanned and written without taking the mutex
LostLock_NoMutex(t) ==
    /\ sth[t].pc = "lock"
    /\ sth' = [sth EXCEPT ![t].pc = "scan"]
    /\ UNCHANGED <<platform, env, fs, pathCall, loaderVars, syncVars, gateQ, lostQ, msgQ,
                   flagQ, diag, g_device_lost_mu, g_wait_any_entries, g_wait_any_next_id,
                   waitQ>>

\* mbt_wgpu_device_lost_mu_lock()
LostLock(t) ==
    /\ sth[t].pc = "lock"
    /\ g_device_lost_mu = 0
    /\ g_device_lost_mu' = t
    /\ sth' = [sth EXCEPT ![t].pc = "scan"]
    /\ UNCHANGED <<platform, env, fs, pathCall, loaderVars, syncVars, gateQ, lostQ, msgQ,
                   flagQ, diag, g_wait_any_entries, g_wait_any_next_id, waitQ>>

\* for (i = 0; i < g_device_lost_len; i++) if (g_device_lost[i].device == device)
LostScan(t) ==
    /\ sth[t].pc = "scan"
    /\ sth' = [sth EXCEPT ![t].pc = "write", ![t].idx = IndexOf(g_device_lost, sth[t].device)]
    /\ UNCHANGED <<platform, env, fs, pathCall, loaderVars, syncVars, gateQ, lostQ, msgQ,
                   flagQ, diag, g_device_lost_mu, g_wait_any_entries, g_wait_any_next_id,
                   waitQ>>

\* the write of mbt_device_lost_upsert at the index the scan found: overwrite
\* the reason, else append while there is room
UpsertAt(reg, k, d, reason) ==
    IF k # 0
    THEN IF k <= Len(reg) THEN [reg EXCEPT ![k].reason = reason] ELSE reg
    ELSE IF Len(reg) < DeviceLostCap
    THEN Append(reg, [device |-> d, reason |-> reason])
    ELSE reg

\* the write of mbt_wgpu_device_take_lost_reason_u32 at the index the scan
\* found: read the reason, move the last entry into the slot, shrink
TakeAt(reg, k) ==
    IF k = 0 \/ k > Len(reg) THEN [reason |-> 0, reg |-> reg]
    ELSE [reason |-> reg[k].reason,
          reg |-> SubSeq([reg EXCEPT ![k] = reg[Len(reg)]], 1, Len(reg) - 1)]

\* The write and mbt_wgpu_device_lost_mu_unlock().  A bounded wait that took no
\* reason polls and takes again, or has used up its max_iters iterations.
LostWrite(t) ==
    /\ sth[t].pc = "write"
    /\ g_device_lost_mu' = IF g_device_lost_mu = t THEN 0 ELSE g_device_lost_mu
    /\ IF sth[t].op \in {"cb", "destroy"}
       THEN /\ g_device_lost' = UpsertAt(g_device_lost, sth[t].idx, sth[t].device,
                                         sth[t].reason)
            /\ sth' = [sth EXCEPT ![t].pc = "done"]
       ELSE LET tk == TakeAt(g_device_lost, sth[t].idx)
            IN  /\ g_device_lost' = tk.reg
                /\ \/ sth' = [sth EXCEPT ![t].pc = "done", ![t].ret = tk.reason]
                   \/ /\ sth[t].op = "wait" /\ tk.reason = 0
                      /\ sth' = [sth EXCEPT ![t].pc = "lock"]
    /\ UNCHANGED <<platform, env, fs, pathCall, loaderVars, marker, gate, statics, lastErr,
                   call, gateQ, lostQ, msgQ, flagQ, diag, g_wait_any_entries,
                   g_wait_any_next_id, waitQ>>

InitLostMt ==
    /\ platform = "linux"
    /\ env = [v \in EnvVars |-> NULLSTR]
    /\ fs = [p \in CandidatePaths |-> LibAt(p)]
    /\ pathCall = [pc |-> "idle", buflen |-> 0, ret |-> NULLSTR]
    /\ LoaderInit
    /\ marker = [f \in Features |-> NULLSTR]
    /\ gate = [f \in Features |-> [enabled |-> FALSE, inited |-> FALSE]]
    /\ statics = [s \in Sites |-> [checked |-> FALSE, pfn |-> 0]]
    /\ lastErr = NoLastErr
    /\ call = IdleCall
    /\ AuxInit
    /\ \E k \in LostMtFills : g_device_lost = Filled(k)

NextLostMt ==
    \/ \E t \in Threads, op \in LostMtOps, d \in LostMtDevices, r \in LostReasons :
          LostCall(t, op, d, r)
    \/ \E t \in Threads : LostLock(t)
    \/ \E t \in Threads : LostScan(t)
    \/ \E t \in Threads : LostWrite(t)

SpecLostMt == InitLostMt /\ [][NextLostMt]_vars

\* C27: under any interleaving of device-lost callbacks, explicit destroys and
\* take / wait calls made by several threads, the registry never holds more
\* than 16 entries nor two entries for one device.
C27_RegistryBoundedDistinct ==
    /\ Len(g_device_lost) <= DeviceLostCap
    /\ DistinctDevices(g_device_lost)

\* two threads, their calls overlapping, have both recorded the loss of the
\* same untracked device in a registry that had one slot left
C27_Witness ==
    /\ \A t \in Threads : sth[t].pc = "done" /\ sth[t].op \in {"cb", "destroy"}
                             /\ sth[t].device = 17
    /\ \E t \in Threads : sth[t].overlap
    /\ sth[1].op # sth[2].op
    /\ Len(g_device_lost) = DeviceLostCap
    /\ Tracked(g_device_lost, 17) /\ ~Tracked(g_device_lost, 16)

----------------------------------------------------------------------------
\* The status message of the request-adapter / request-device callbacks
\* (checked under SpecMsg).

\* C28: when the native library delivers a status message to the
\* request-adapter or request-device callback, at most the cap's worth of
\* bytes is copied into the result record and the length recorded with it is
\* the message's true length, also when the message is longer than the cap.
C28_TrueLengthRecorded ==
    (msgQ.op = "deliver" /\ msgQ.data) =>
        /\ msgQ.copied <= MessageCap
        /\ msgQ.len = msgQ.native

----------------------------------------------------------------------------
\* Work-done futures and wait_any (wgpu_stub_extras.c).

\* sizeof(g_wait_any_entries) / sizeof(g_wait_any_entries[0])
WaitAnyCap == 64
\* number of entries the registry holds when the model starts
WaitAnyFills == {0, 62}
\* most futures requested and most wait_any calls made in one behaviour
MaxFutures == 3
MaxWaitCalls == 3

\* entries of futures requested earlier, whose work is still outstanding
WaitFilled(k) == [j \in 1..k |-> [id |-> j, completed |-> FALSE]]

\* mbt_wait_any_new_id: the id (0: registry full) and the registry afterwards
mbt_wait_any_new_id(entries, next_id) ==
    IF Len(entries) < WaitAnyCap
    THEN [id |-> next_id, next_id |-> next_id + 1,
          entries |-> Append(entries, [id |-> next_id, completed |-> FALSE])]
    ELSE [id |-> 0, next_id |-> next_id, entries |-> entries]

\* mbt_wait_any_mark_completed
mbt_wait_any_mark_completed(entries, id) ==
    [j \in 1..Len(entries) |->
        IF entries[j].id = id /\ \A i \in 1..(j - 1) : entries[i].id # id
        THEN [entries[j] EXCEPT !.completed = TRUE]
        ELSE entries[j]]

\* the callbacks of the ids in S run, in any order
MarkAll(entries, S) ==
    [j \in 1..Len(entries) |->
        IF entries[j].id \in S THEN [entries[j] EXCEPT !.completed = TRUE] ELSE entries[j]]

WaitIndexOf(entries, id) ==
    IF \E k \in 1..Len(entries) : entries[k].id = id
    THEN CHOOSE k \in 1..Len(entries) :
            entries[k].id = id /\ \A j \in 1..(k - 1) : entries[j].id # id
    ELSE 0

\* variant: a completed entry is reported and left in the registry
mbt_wait_any_take_completed_Keep(entries, id) ==
    LET k == WaitIndexOf(entries, id)
    IN  IF k = 0 THEN [found |-> FALSE, completed |-> FALSE, entries |-> entries]
        ELSE [found |-> TRUE, completed |-> entries[k].completed, entries |-> entries]

\* mbt_wait_any_take_completed: found, *completed_out, the registry afterwards
mbt_wait_any_take_completed(entries, id) ==
    LET k == WaitIndexOf(entries, id)
    IN  IF k = 0 THEN [found |-> FALSE, completed |-> FALSE, entries |-> entries]
        ELSE IF entries[k].completed
        THEN [found |-> TRUE, completed |-> TRUE,
              entries |-> SubSeq([entries EXCEPT ![k] = entries[Len(entries)]],
                                 1, Len(entries) - 1)]
        ELSE [found |-> TRUE, completed |-> FALSE, entries |-> entries]

\* mbt_wgpu_instance_wait_any_one_packed_u64 after its wgpuInstanceProcessEvents:
\* the two halves of the packed result, (completed << 32) | status
WaitAnyResult(instance, timeout_ns, tk) ==
    IF ~instance THEN [status |-> 0, completed |-> 0]
    ELSE IF timeout_ns # 0 THEN [status |-> 3, completed |-> 0]
    ELSE [status |-> IF tk.found THEN (IF tk.completed THEN 1 ELSE 2) ELSE 0,
          completed |-> IF tk.completed THEN 1 ELSE 0]

\* mbt_wgpu_queue_on_submitted_work_done_future_id_u64(queue)
FutureNew(queue) ==
    /\ Cardinality(waitQ.issued) < MaxFutures
    /\ IF ~queue
       THEN UNCHANGED <<g_wait_any_entries, g_wait_any_next_id, waitQ>>
       ELSE LET r == mbt_wait_any_new_id(g_wait_any_entries, g_wait_any_next_id)
            IN  /\ g_wait_any_entries' = r.entries
                /\ g_wait_any_next_id' = r.next_id
                /\ waitQ' = IF r.id = 0 THEN waitQ
                            ELSE [waitQ EXCEPT !.issued = @ \cup {r.id},
                                               !.pending = @ \cup {r.id}]
    /\ UNCHANGED <<platform, env, fs, pathCall, loaderVars, syncVars, gateQ, lostQ, msgQ,
                   flagQ, diag, sth, g_device_lost_mu>>

\* mbt_wgpu_queue_work_done_mark_completed_cb(status, id, NULL), run by the
\* native library inside a wgpuInstanceProcessEvents of some other call
WorkDoneCb(id) ==
    /\ id \in waitQ.pending
    /\ g_wait_any_entries' = mbt_wait_any_mark_completed(g_wait_any_entries, id)
    /\ waitQ' = [waitQ EXCEPT !.pending = @ \ {id}, !.ran = @ \cup {id}]
    /\ UNCHANGED <<platform, env, fs, pathCall, loaderVars, syncVars, gateQ, lostQ, msgQ,
                   flagQ, diag, sth, g_device_lost_mu, g_wait_any_next_id>>

\* mbt_wgpu_instance_wait_any_one_packed_u64(instance, future_id, timeout_ns):
\* its wgpuInstanceProcessEvents runs the callbacks of the set S of futures
\* whose work has completed, then the entry is looked up and taken.
WaitAny(instance, id, timeout_ns, S) ==
    /\ Len(waitQ.calls) < MaxWaitCalls
    /\ S \subseteq waitQ.pending
    /\ LET polled == instance /\ timeout_ns = 0
           fired == IF polled THEN S ELSE {}
           marked == MarkAll(g_wait_any_entries, fired)
           tk == mbt_wait_any_take_completed(marked, id)
           r == WaitAnyResult(instance, timeout_ns, tk)
       IN  /\ g_wait_any_entries' = IF polled THEN tk.entries ELSE g_wait_any_entries
           /\ waitQ' = [waitQ EXCEPT
                          !.pending = @ \ fired,
                          !.ran = @ \cup fired,
                          !.calls = Append(@, [instance |-> instance, id |-> id,
                                               timeout_ns |-> timeout_ns,
                                               issued |-> id \in waitQ.issued,
                                               ran |-> id \in (waitQ.ran \cup fired),
                                               status |-> r.status,
                                               completed |-> r.completed])]
    /\ UNCHANGED <<platform, env, fs, pathCall, loaderVars, syncVars, gateQ, lostQ, msgQ,
                   flagQ, diag, sth, g_device_lost_mu, g_wait_any_next_id>>

InitWaitAny ==
    /\ platform = "linux"
    /\ env = [v \in EnvVars |-> NULLSTR]
    /\ fs = [p \in CandidatePaths |-> LibAt(p)]
    /\ pathCall = [pc |-> "idle", buflen |-> 0, ret |-> NULLSTR]
    /\ LoaderInit
    /\ SyncInit
    /\ gateQ = NoGateQ
    /\ lostQ = NoLostQ
    /\ msgQ = NoMsgQ
    /\ flagQ = NoFlagQ
    /\ diag = NoDiag
    /\ sth = [t \in Threads |-> IdleLostFrame]
    /\ g_device_lost_mu = 0
    /\ waitQ = NoWaitQ
    /\ \E k \in WaitAnyFills :
          /\ g_wait_any_entries = WaitFilled(k)
          /\ g_wait_any_next_id = k + 1

\* the future ids a caller may pass: the next few ids, issued or not, and 0
WaitIds == {0} \cup {k + j : k \in WaitAnyFills, j \in 1..2}

NextWaitAny ==
    \/ \E queue \in BOOLEAN : FutureNew(queue)
    \/ \E id \in WaitIds : WorkDoneCb(id)
    \/ \E instance \in BOOLEAN, id \in WaitIds, timeout_ns \in {0, 1},
          S \in SUBSET waitQ.pending : WaitAny(instance, id, timeout_ns, S)

SpecWaitAny == InitWaitAny /\ [][NextWaitAny]_vars

\* wait_any call i polls for the issued future id with a valid instance and
\* timeout 0
PollsFor(i, id) ==
    /\ waitQ.calls[i].id = id
    /\ waitQ.calls[i].issued
    /\ waitQ.calls[i].instance
    /\ waitQ.calls[i].timeout_ns = 0

\* C29: for a non-zero future id handed out by
\* mbt_wgpu_queue_on_submitted_work_done_future_id_u64, a wait_any with
\* timeout 0 reports TimedOut (status 2, completed 0) as long as the
\* completion callback has not run when the entry is looked up, Success
\* (status 1, completed 1) on the first call after it has run and on no other,
\* and status 0 (unknown id) on every call after that.
C29_WaitAnyLifecycle ==
    \A id \in waitQ.issued : \A i \in 1..Len(waitQ.calls) :
        PollsFor(i, id) =>
            LET c == waitQ.calls[i]
                first == \A j \in 1..(i - 1) : PollsFor(j, id) => ~waitQ.calls[j].ran
            IN  /\ ~c.ran => (c.status = 2 /\ c.completed = 0)
                /\ (c.ran /\ first) => (c.status = 1 /\ c.completed = 1)
                /\ (c.ran /\ ~first) => (c.status = 0 /\ c.completed = 0)

\* three polls for one future: before its callback ran, after, and once more
C29_Witness ==
    /\ Len(waitQ.calls) = 3
    /\ \E id \in waitQ.issued :
          /\ id = WaitAnyCap
          /\ \A i \in 1..3 : PollsFor(i, id)
          /\ waitQ.calls[1].status = 2 /\ ~waitQ.calls[1].ran
          /\ waitQ.calls[2].status = 1 /\ waitQ.calls[2].completed = 1
          /\ waitQ.calls[3].status = 0 /\ waitQ.calls[3].completed = 0

----------------------------------------------------------------------------
\* The per-call-site symbol cache used from several threads
\* (wgpu_stub_helpers_sync.c): `static bool checked; static ... pfn;
\* if (!checked) { pfn = mbt_wgpu_optional_sym(name); checked = true; }
\* if (!pfn) ...`.  The two statics are plain variables read and written
\* without synchronisation; statics[s] is what other threads see of them, and
\* the two stores of a thread become visible in either order.

\* sawChecked: the thread read checked as true; looked, lookups: the result of
\* its lookup and how many it made; stPfn, stChk: its store to pfn / checked is
\* visible; used: the pointer it went on with.
IdleSiteFrame == [pc |-> "idle", site |-> "none", sawChecked |-> FALSE, looked |-> 0,
                  lookups |-> 0, stPfn |-> FALSE, stChk |-> FALSE, used |-> 0]

\* A thread reaches the cache of site s, gate passed.
SiteEnter(t, s) ==
    /\ sth[t].pc = "idle"
    /\ \A u \in Threads : sth[u].site \in {"none", s}
    /\ sth' = [sth EXCEPT ![t].pc = "check", ![t].site = s]
    /\ UNCHANGED <<platform, env, fs, pathCall, loaderVars, syncVars, gateQ, lostQ, msgQ,
                   flagQ, diag, g_device_lost_mu, g_wait_any_entries, g_wait_any_next_id,
                   waitQ>>

\* if (!checked)
SiteCheck(t) ==
    /\ sth[t].pc = "check"
    /\ sth' = [sth EXCEPT ![t].sawChecked = statics[sth[t].site].checked,
                          ![t].pc = IF statics[sth[t].site].checked THEN "use" ELSE "lookup"]
    /\ UNCHANGED <<platform, env, fs, pathCall, loaderVars, syncVars, gateQ, lostQ, msgQ,
                   flagQ, diag, g_device_lost_mu, g_wait_any_entries, g_wait_any_next_id,
                   waitQ>>

\* mbt_wgpu_optional_sym(name)
SiteLookup(t) ==
    /\ sth[t].pc = "lookup"
    /\ LET r == mbt_wgpu_optional_sym(Name(SiteSymbol(sth[t].site)))
       IN  /\ g_mbt_wgpu_optional_lib' = r.lib
           /\ g_mbt_wgpu_optional_once' = r.once
           /\ loads' = r.loads
           /\ sth' = [sth EXCEPT ![t].looked = r.ret, ![t].lookups = @ + 1,
                                 ![t].pc = "store"]
    /\ UNCHANGED <<platform, env, fs, pathCall, g_mbt_wgpu_native_lib, g_mbt_wgpu_native_mu,
                   th, aborted, envChanges, syncVars, gateQ, lostQ, msgQ, flagQ, diag,
                   g_device_lost_mu, g_wait_any_entries, g_wait_any_next_id, waitQ>>

\* pfn = ...: the store becomes visible to the other threads
SiteStorePfn(t) ==
    /\ sth[t].pc = "store"
    /\ ~sth[t].stPfn
    /\ statics' = [statics EXCEPT ![sth[t].site].pfn = sth[t].looked]
    /\ sth' = [sth EXCEPT ![t].stPfn = TRUE,
                          ![t].pc = IF sth[t].stChk THEN "use" ELSE "store"]
    /\ UNCHANGED <<platform, env, fs, pathCall, loaderVars, marker, gate, lastErr,
                   g_device_lost, call, gateQ, lostQ, msgQ, flagQ, diag, g_device_lost_mu,
                   g_wait_any_entries, g_wait_any_next_id, waitQ>>

\* checked = true: the store becomes visible to the other threads
SiteStoreChecked(t) ==
    /\ sth[t].pc = "store"
    /\ ~sth[t].stChk
    /\ statics' = [statics EXCEPT ![sth[t].site].checked = TRUE]
    /\ sth' = [sth EXCEPT ![t].stChk = TRUE,
                          ![t].pc = IF sth[t].stPfn THEN "use" ELSE "store"]
    /\ UNCHANGED <<platform, env, fs, pathCall, loaderVars, marker, gate, lastErr,
                   g_device_lost, call, gateQ, lostQ, msgQ, flagQ, diag, g_device_lost_mu,
                   g_wait_any_entries, g_wait_any_next_id, waitQ>>

\* if (!pfn) ... else pfn(...): the thread reads pfn and goes on with it
SiteUse(t) ==
    /\ sth[t].pc = "use"
    /\ sth' = [sth EXCEPT ![t].used = statics[sth[t].site].pfn, ![t].pc = "done"]
    /\ UNCHANGED <<platform, env, fs, pathCall, loaderVars, syncVars, gateQ, lostQ, msgQ,
                   flagQ, diag, g_device_lost_mu, g_wait_any_entries, g_wait_any_next_id,
                   waitQ>>

InitSite ==
    /\ platform = "linux"
    /\ \E o \in LoadOverrideVals, h \in LoadHomeVals :
          env = [v \in EnvVars |-> IF v = "MBT_WGPU_NATIVE_LIB" THEN o
                                   ELSE IF v = "HOME" THEN h ELSE NULLSTR]
    /\ fs \in {f \in [CandidatePaths -> {NoLib, 1, 2}] :
                  \A p \in CandidatePaths : f[p] \in {NoLib, LibAt(p)}}
    /\ pathCall = [pc |-> "idle", buflen |-> 0, ret |-> NULLSTR]
    /\ LoaderInit
    /\ SyncInit
    /\ gateQ = NoGateQ
    /\ lostQ = NoLostQ
    /\ msgQ = NoMsgQ
    /\ flagQ = NoFlagQ
    /\ diag = NoDiag
    /\ sth = [t \in Threads |-> IdleSiteFrame]
    /\ g_device_lost_mu = 0
    /\ g_wait_any_entries = <<>>
    /\ g_wait_any_next_id = 1
    /\ waitQ = NoWaitQ

NextSite ==
    \/ \E t \in Threads, s \in Sites : SiteEnter(t, s)
    \/ \E t \in Threads : SiteCheck(t)
    \/ \E t \in Threads : SiteLookup(t)
    \/ \E t \in Threads : SiteStorePfn(t)
    \/ \E t \in Threads : SiteStoreChecked(t)
    \/ \E t \in Threads : SiteUse(t)

SpecSite == InitSite /\ [][NextSite]_vars

\* C30: a race between threads making their first calls at a call site is
\* benign: each thread makes at most one lookup, all lookups yield the same
\* result, and a thread that read the cache as checked goes on with that
\* result and no other pointer.
C30_RaceBenign ==
    /\ \A t \in Threads : sth[t].lookups <= 1
    /\ \A t, u \in Threads :
          (sth[t].lookups = 1 /\ sth[u].lookups = 1) => sth[t].looked = sth[u].looked
    /\ \A t, u \in Threads :
          (sth[t].pc = "done" /\ sth[t].sawChecked /\ sth[u].lookups = 1)
             => sth[t].used = sth[u].looked

====
